---- MODULE Spec2Model ----
(***************************************************************************)
(* RightScheme AI: the browser script js/app.js (form wizard, chat,        *)
(* accordion rendering) and the Express proxy server.js (POST /api/chat).  *)
(*                                                                         *)
(* A text is a sequence of tokens (strings).  In texts that are parsed a   *)
(* token is one character, the words Match and Score: of the score marker  *)
(* being single tokens; "B" stands for the building emoji of the scheme    *)
(* heading, "\n" for a line break.  Run-to-completion handlers of the page *)
(* are single actions; every await of a handler separates two actions.     *)
(***************************************************************************)
EXTENDS Integers, Sequences, FiniteSets, TLC

VARIABLES
    currentStep,    \* app.js:9   let currentStep
    activeStep,     \* the .form-step element carrying class 'active'
    fields,         \* value of the required non-radio inputs of the form
    categoryChecked,\* input[name="category"]:checked exists
    formVisible,    \* #schemeForm / .progress-bar-container display
    resultsVisible, \* #selectorResults display
    resultsContent, \* #selectorResultsContent innerHTML (rendered response)
    loading,        \* #loadingOverlay has class 'active'
    activeTab,      \* the .tab-content carrying class 'active'
    chatInput,      \* #chatInput value
    chatHistory,    \* app.js:11  let chatHistory
    transcript,     \* children of #chatMessages, in document order
    net,            \* requests to /api/chat that have not resolved yet
    apiKey,         \* process.env.GROQ_API_KEY is set
    issued,         \* number of fetch(API_URL) calls made by the page
    actions,        \* number of submits and non-blank sends made by the user
    foreign,        \* number of requests posted by other HTTP clients
    upstreamCalls,  \* number of fetch calls the proxy made to the provider
    lastOps,        \* effects of the handler that ran last, in program order;
                    \* an alert is followed by its text
    rawText,        \* a text handed to one of the pure functions of app.js
    rendered,       \* what that function returned for it
    isUnlocked,     \* part_002:5  let isUnlocked
    lockClickCount, \* part_002:6  let lockClickCount
    statusText,     \* #statusText textContent
    lockBox,        \* classes of #lock3dBox set by the script
    sparkles,       \* #sparkleContainer holds sparkles
    ctaVisible,     \* #ctaContainer display is 'block'
    transition,     \* #pageTransition has class 'active'
    timers,         \* callbacks of setTimeout still to run, in the order set
    location,       \* window.location of the landing page's tab
    lockClicks,     \* number of clicks on the lock made by the user
    enterClicks     \* number of clicks on an enter button made by the user

vars == <<currentStep, activeStep, fields, categoryChecked, formVisible,
          resultsVisible, resultsContent, loading, activeTab,
          chatInput, chatHistory, transcript, net, apiKey, issued, actions,
          foreign, upstreamCalls, lastOps, rawText, rendered,
          isUnlocked, lockClickCount, statusText, lockBox, sparkles,
          ctaVisible, transition, timers, location, lockClicks, enterClicks>>

formVars == <<currentStep, activeStep, fields, categoryChecked, formVisible,
              resultsVisible, resultsContent, loading>>
chatVars == <<chatInput, chatHistory, transcript>>
countVars == <<issued, actions, foreign, upstreamCalls>>
renderVars == <<rawText, rendered>>
appVars == <<formVars, activeTab, chatVars, net, apiKey, countVars, lastOps>>
landingVars == <<isUnlocked, lockClickCount, statusText, lockBox, sparkles,
                 ctaVisible, transition, timers, location, lockClicks,
                 enterClicks>>
pageVars == <<appVars, landingVars>>

----------------------------------------------------------------------------
(* Bounds *)

MaxActions == 2
MaxForeign == 1
MaxLockClicks == 5
MaxEnterClicks == 3

(* Program constants *)

totalSteps == 3
FormMaxTokens == 4000
ChatMaxTokens == 2000

----------------------------------------------------------------------------
(* Texts *)

IsWs(c) == c \in {" ", "\n", "\t"}
IsDigit(c) == c \in {"0", "1", "2", "3", "4", "5", "6", "7", "8", "9"}

\* s without its leading white space
TrimStart(s) ==
    LET ink == {i \in 1..Len(s) : ~IsWs(s[i])}
    IN  IF ink = {} THEN <<>>
        ELSE SubSeq(s, CHOOSE i \in ink : \A j \in ink : i <= j, Len(s))

\* s without its trailing white space
TrimEnd(s) ==
    LET ink == {i \in 1..Len(s) : ~IsWs(s[i])}
    IN  IF ink = {} THEN <<>>
        ELSE SubSeq(s, 1, CHOOSE i \in ink : \A j \in ink : j <= i)

\* String.prototype.trim
Trim(s) == TrimEnd(TrimStart(s))

\* String.prototype.includes for a single token
Includes(s, c) == \E i \in 1..Len(s) : s[i] = c

IsPrefix(s, t) == Len(s) <= Len(t) /\ SubSeq(t, 1, Len(s)) = s

\* toLowerCase, on the letters the classification looks for and on the
\* words of the score marker, which a text holds as single tokens
LowerToken(c) ==
    CASE c = "Q" -> "q" [] c = "U" -> "u" [] c = "O" -> "o"
      [] c = "T" -> "t" [] c = "A" -> "a" [] c = "R" -> "r"
      [] c = "E" -> "e"
      [] c \in {"Match", "MATCH"} -> "match"
      [] c \in {"Score:", "SCORE:"} -> "score:"
      [] OTHER -> c

ToLower(s) == [i \in 1..Len(s) |-> LowerToken(s[i])]

----------------------------------------------------------------------------
(* buildSchemeAccordion: splitting a response into scheme chunks *)

\* position reached by a greedy \s* that starts at p
SkipWs(s, p) ==
    LET stop == {q \in p..Len(s) : ~IsWs(s[q])}
    IN  IF p > Len(s) THEN p
        ELSE IF stop = {} THEN Len(s) + 1
        ELSE CHOOSE q \in stop : \A r \in stop : q <= r

\* position reached by a greedy \d* that starts at p
SkipDigits(s, p) ==
    LET stop == {q \in p..Len(s) : ~IsDigit(s[q])}
    IN  IF p > Len(s) THEN p
        ELSE IF stop = {} THEN Len(s) + 1
        ELSE CHOOSE q \in stop : \A r \in stop : q <= r

\* the lookaheads (?=##\s*B) and (?=##\s*\d+\.) of the split regex, at p
HeadingAt(s, p) ==
    /\ p + 1 <= Len(s)
    /\ s[p] = "#"
    /\ s[p + 1] = "#"
    /\ LET q == SkipWs(s, p + 2)
       IN  /\ q <= Len(s)
           /\ \/ s[q] = "B"
              \/ /\ IsDigit(s[q])
                 /\ LET r == SkipDigits(s, q)
                    IN  r <= Len(s) /\ s[r] = "."

\* String.prototype.split with a zero-width pattern never cuts at offset 0
SplitPoints(s) == {p \in 2..Len(s) : HeadingAt(s, p)}

RECURSIVE SplitFrom(_, _, _)
\* the pieces of s from position from on, cut before every point of pts
SplitFrom(s, from, pts) ==
    LET later == {p \in pts : p > from}
    IN  IF later = {} THEN <<SubSeq(s, from, Len(s))>>
        ELSE LET nxt == CHOOSE p \in later : \A q \in later : p <= q
             IN  <<SubSeq(s, from, nxt - 1)>> \o SplitFrom(s, nxt, pts)

\* content.split(...).filter(s => s.trim())
SchemeChunks(content) ==
    IF content = <<>> THEN <<>>
    ELSE SelectSeq(SplitFrom(content, 1, SplitPoints(content)),
                   LAMBDA c : Trim(c) # <<>>)

\* trimmed.match(/^##\s*(?:B\s*)?(.+?)$/m) is not null
HasNameMatch(t) ==
    \E i \in 1..Len(t) :
        /\ i = 1 \/ t[i - 1] = "\n"
        /\ i + 1 <= Len(t)
        /\ t[i] = "#"
        /\ t[i + 1] = "#"
        /\ \E j \in (i + 2)..Len(t) :
              /\ t[j] # "\n"
              /\ \A k \in (i + 2)..(j - 1) : IsWs(t[k]) \/ t[k] = "B"

\* FallsBack, without the test for the emoji
FallsBack_ChunksOnly(content) == Len(SchemeChunks(content)) <= 1

\* the condition of the fall back to formatResponse, app.js:456
FallsBack(content) ==
    Len(SchemeChunks(content)) <= 1 /\ ~Includes(content, "B")

\* number of .scheme-accordion-item elements the builder emits
ItemCount(content) ==
    IF FallsBack(content) THEN 0
    ELSE Len(SelectSeq(SchemeChunks(content),
                       LAMBDA c : HasNameMatch(Trim(c))))

\* the ids scheme-0 .. scheme-(n-1), every item without class 'open'
buildSchemeAccordion(content) ==
    [html |-> content,
     accordion |-> ~FallsBack(content),
     open |-> [i \in 1..ItemCount(content) |-> FALSE]]

NoHtml == [html |-> <<>>, accordion |-> FALSE, open |-> <<>>]

----------------------------------------------------------------------------
(* Global replaces.  A tag the renderer writes is one token ("<p>",        *)
(* "</strong>"); every character of the text, also one of an entity such   *)
(* as &lt;, is a token of its own.                                          *)

RECURSIVE Concat(_, _, _)
\* ss[lo] \o ... \o ss[hi]
Concat(ss, lo, hi) ==
    IF lo > hi THEN <<>>
    ELSE IF lo = hi THEN ss[lo]
    ELSE LET mid == (lo + hi) \div 2
         IN  Concat(ss, lo, mid) \o Concat(ss, mid + 1, hi)

\* the concatenation of the sequences of a sequence
Flatten(ss) == Concat(ss, 1, Len(ss))

\* the function f of domain 1..n as the tuple of its values
Values(f) == f \o <<>>

RECURSIVE Orbit(_, _)
\* the positions reached from those of R by following jump any number of
\* times
Orbit(jump, R) ==
    LET more == R \cup {jump[x] : x \in R}
    IN  IF more = R THEN R
        ELSE Orbit(Values([i \in DOMAIN jump |-> jump[jump[i]]]), more)

\* the positions at which a global regex is tried on a text, from left to
\* right: after a match the search goes on behind it, otherwise one
\* character on; stop[i] is the last position of the match that starts at
\* i, 0 if there is no match at i
Tried(stop) ==
    LET n == Len(stop)
    IN  Orbit(Values([i \in 1..(n + 1) |->
                         IF i > n THEN i
                         ELSE IF stop[i] # 0 THEN stop[i] + 1 ELSE i + 1]),
              {1})

\* s.replace(regex, ...) under the flag g: with[i] replaces the match that
\* starts at i
Replace(s, stop, with) ==
    IF s = <<>> THEN <<>>
    ELSE LET ends == Values(stop)
             tried == Tried(ends)
         IN  Flatten([i \in 1..Len(s) |->
                         IF i \notin tried THEN <<>>
                         ELSE IF ends[i] # 0 THEN with[i]
                         ELSE <<s[i]>>])

\* the replacement that takes every match out
Nothing(s) == [i \in 1..Len(s) |-> <<>>]

\* the k-th smallest element of a set of numbers
Kth(S, k) == CHOOSE x \in S : Cardinality({y \in S : y < x}) = k - 1

\* the start positions of the matches of a global regex on s, in order
MatchStarts(stop) ==
    LET ends == Values(stop)
        at == {i \in Tried(ends) : i <= Len(ends) /\ ends[i] # 0}
    IN  [k \in 1..Cardinality(at) |-> Kth(at, k)]

\* the first position of S, 0 if S is empty
FirstOf(S) == IF S = {} THEN 0 ELSE CHOOSE i \in S : \A j \in S : i <= j

\* index of the first c in s at or after position i, Len(s) + 1 if none
IndexFrom(s, c, i) ==
    LET at == {j \in i..Len(s) : s[j] = c}
    IN  IF at = {} THEN Len(s) + 1 ELSE FirstOf(at)

\* position reached by a greedy c* that starts at p
SkipChar(s, c, p) ==
    LET stop == {q \in p..Len(s) : s[q] # c}
    IN  IF p > Len(s) THEN p
        ELSE IF stop = {} THEN Len(s) + 1 ELSE FirstOf(stop)

\* ^ and $ under the flag m
AtLineStart(s, i) == i = 1 \/ s[i - 1] = "\n"
LineEnd(s, i) == IndexFrom(s, "\n", i) - 1

\* pat is in s at position i
SeqAt(s, pat, i) ==
    i + Len(pat) - 1 <= Len(s) /\ SubSeq(s, i, i + Len(pat) - 1) = pat

\* s.replace(/pat/g, rep) for a literal pat
ReplaceSeq(s, pat, rep) ==
    Replace(s,
            [i \in 1..Len(s) |->
                IF SeqAt(s, pat, i) THEN i + Len(pat) - 1 ELSE 0],
            [i \in 1..Len(s) |-> rep])

----------------------------------------------------------------------------
(* formatResponse: the rewrites of the renderer, in its order *)

Amp == <<"&", "a", "m", "p", ";">>
Lt == <<"&", "l", "t", ";">>
Gt == <<"&", "g", "t", ";">>

\* .replace(/&/g, '&amp;').replace(/</g, '&lt;').replace(/>/g, '&gt;')
EscapeChars(s) ==
    ReplaceSeq(ReplaceSeq(ReplaceSeq(s, <<"&">>, Amp), <<"<">>, Lt),
               <<">">>, Gt)

\* /^---+$/gm
RuleStop(s, i) ==
    IF /\ AtLineStart(s, i)
       /\ LineEnd(s, i) >= i + 2
       /\ \A k \in i..LineEnd(s, i) : s[k] = "-"
    THEN LineEnd(s, i)
    ELSE 0

StripRules(s) == Replace(s, [i \in 1..Len(s) |-> RuleStop(s, i)], Nothing(s))

\* /\n{3,}/g, '\n\n'
BreaksStop(s, i) ==
    IF s[i] = "\n" /\ SkipChar(s, "\n", i) - i >= 3
    THEN SkipChar(s, "\n", i) - 1
    ELSE 0

CollapseBreaks(s) ==
    Replace(s, [i \in 1..Len(s) |-> BreaksStop(s, i)],
            [i \in 1..Len(s) |-> <<"\n", "\n">>])

\* /\[([^\]]+)\]\(([^)]+)\)/g
LinkStop(s, i) ==
    LET j == IndexFrom(s, "]", i + 1)
        k == IndexFrom(s, ")", j + 2)
    IN  IF /\ s[i] = "["
           /\ j >= i + 2
           /\ j + 1 <= Len(s)
           /\ s[j + 1] = "("
           /\ k >= j + 3
           /\ k <= Len(s)
        THEN k
        ELSE 0

\* '<a href="$2" target="_blank" rel="noopener">$1</a>'
Anchor(s, i) ==
    LET j == IndexFrom(s, "]", i + 1)
    IN  <<"<a href=\"">> \o SubSeq(s, j + 2, LinkStop(s, i) - 1)
        \o <<"\" target=\"_blank\" rel=\"noopener\">">>
        \o SubSeq(s, i + 1, j - 1) \o <<"</a>">>

Links(s) ==
    Replace(s, [i \in 1..Len(s) |-> LinkStop(s, i)],
            [i \in 1..Len(s) |->
                IF LinkStop(s, i) # 0 THEN Anchor(s, i) ELSE <<>>])

\* /^marker(.+)$/gm
HeadingStop(s, marker, i) ==
    IF /\ AtLineStart(s, i)
       /\ SeqAt(s, marker, i)
       /\ LineEnd(s, i) >= i + Len(marker)
    THEN LineEnd(s, i)
    ELSE 0

\* the element written for a line that starts with marker
Headings(s, marker, open, close) ==
    Replace(s, [i \in 1..Len(s) |-> HeadingStop(s, marker, i)],
            [i \in 1..Len(s) |->
                <<open>> \o SubSeq(s, i + Len(marker), LineEnd(s, i))
                \o <<close>>])

\* the closing ** of /\*\*(.+?)\*\*/ for a match that starts at i
BoldClose(s, i) ==
    FirstOf({j \in (i + 3)..(Len(s) - 1) :
                /\ s[j] = "*"
                /\ s[j + 1] = "*"
                /\ \A k \in (i + 2)..(j - 1) : s[k] # "\n"})

BoldStop(s, i) ==
    IF SeqAt(s, <<"*", "*">>, i) /\ BoldClose(s, i) # 0
    THEN BoldClose(s, i) + 1
    ELSE 0

Bold(s) ==
    Replace(s, [i \in 1..Len(s) |-> BoldStop(s, i)],
            [i \in 1..Len(s) |->
                <<"<strong>">> \o SubSeq(s, i + 2, BoldClose(s, i) - 1)
                \o <<"</strong>">>])

\* /(?<!=)\*([^*\n]+?)\*/g
ItalicStop(s, i) ==
    LET j == FirstOf({k \in (i + 1)..Len(s) : s[k] \in {"*", "\n"}})
    IN  IF /\ s[i] = "*"
           /\ i = 1 \/ s[i - 1] # "="
           /\ j >= i + 2
           /\ s[j] = "*"
        THEN j
        ELSE 0

Italic(s) ==
    Replace(s, [i \in 1..Len(s) |-> ItalicStop(s, i)],
            [i \in 1..Len(s) |->
                <<"<em>">> \o SubSeq(s, i + 1, ItalicStop(s, i) - 1)
                \o <<"</em>">>])

\* /^[-•] (.+)$/gm; "o" stands for the bullet character
BulletStop(s, i) ==
    IF /\ AtLineStart(s, i)
       /\ s[i] \in {"-", "o"}
       /\ i + 1 <= Len(s)
       /\ s[i + 1] = " "
       /\ LineEnd(s, i) >= i + 2
    THEN LineEnd(s, i)
    ELSE 0

Bullets(s) ==
    Replace(s, [i \in 1..Len(s) |-> BulletStop(s, i)],
            [i \in 1..Len(s) |->
                <<"<li>">> \o SubSeq(s, i + 2, LineEnd(s, i)) \o <<"</li>">>])

\* /^(\d+)\. (.+)$/gm
NumberedStop(s, i) ==
    LET d == SkipDigits(s, i)
    IN  IF /\ AtLineStart(s, i)
           /\ d > i
           /\ d + 1 <= Len(s)
           /\ s[d] = "."
           /\ s[d + 1] = " "
           /\ LineEnd(s, i) >= d + 2
        THEN LineEnd(s, i)
        ELSE 0

Numbered(s) ==
    Replace(s, [i \in 1..Len(s) |-> NumberedStop(s, i)],
            [i \in 1..Len(s) |->
                <<"<li>">> \o SubSeq(s, i, LineEnd(s, i)) \o <<"</li>">>])

\* the last </li> of the line that holds position i, 0 if none
LastItemClose(s, i) ==
    LET at == {j \in i..LineEnd(s, i) : s[j] = "</li>"}
    IN  IF at = {} THEN 0 ELSE CHOOSE j \in at : \A k \in at : k <= j

RECURSIVE ListStop(_, _)
\* /((?:<li>.*<\/li>\n?)+)/g: one more <li>...</li> with its line break,
\* as long as another follows
ListStop(s, i) ==
    IF s[i] # "<li>" \/ LastItemClose(s, i) = 0 THEN 0
    ELSE LET c == LastItemClose(s, i)
             e == IF c + 1 <= Len(s) /\ s[c + 1] = "\n" THEN c + 1 ELSE c
         IN  IF e + 1 <= Len(s) /\ ListStop(s, e + 1) # 0
             THEN ListStop(s, e + 1)
             ELSE e

Lists(s) ==
    Replace(s, [i \in 1..Len(s) |-> ListStop(s, i)],
            [i \in 1..Len(s) |->
                <<"<ul>">> \o SubSeq(s, i, ListStop(s, i)) \o <<"</ul>">>])

\* /(a)\s*(b)/g for a tag a of A and a tag b of B; gap says whether the \s*
\* is there
TidyStop(s, A, B, gap, i) ==
    LET q == IF gap THEN SkipWs(s, i + 1) ELSE i + 1
    IN  IF s[i] \in A /\ q <= Len(s) /\ s[q] \in B THEN q ELSE 0

\* keep says which of the two tags the replacement keeps (0 for neither)
Tidy(s, A, B, gap, keep) ==
    Replace(s, [i \in 1..Len(s) |-> TidyStop(s, A, B, gap, i)],
            [i \in 1..Len(s) |->
                IF keep = 1 THEN <<s[i]>>
                ELSE IF keep = 2 /\ TidyStop(s, A, B, gap, i) # 0
                THEN <<s[TidyStop(s, A, B, gap, i)]>>
                ELSE <<>>])

HOpen == {"<h1>", "<h2>", "<h3>"}
HClose == {"</h1>", "</h2>", "</h3>"}

\* the rewrites after the escaping up to the lists, app.js:401-423
Markup(escaped) ==
    LET ruled == CollapseBreaks(StripRules(escaped))
        h3 == Headings(Links(ruled), <<"#", "#", "#", " ">>, "<h3>", "</h3>")
        h2 == Headings(h3, <<"#", "#", " ">>, "<h2>", "</h2>")
        h1 == Headings(h2, <<"#", " ">>, "<h1>", "</h1>")
    IN  Lists(Numbered(Bullets(Italic(Bold(h1)))))

\* the paragraphs, app.js:426-428
Paragraphs(html) ==
    <<"<p>">>
    \o ReplaceSeq(ReplaceSeq(html, <<"\n", "\n">>, <<"</p>", "<p>">>),
                  <<"\n">>, <<"<br>">>)
    \o <<"</p>">>

\* the clean up, app.js:431-442
CleanUp(html) ==
    LET a == Tidy(html, {"<p>"}, {"</p>"}, TRUE, 0)
        b == Tidy(a, {"<p>"}, HOpen, TRUE, 2)
        c == Tidy(b, HClose, {"</p>"}, TRUE, 1)
        d == Tidy(c, {"<p>"}, {"<ul>"}, TRUE, 2)
        e == Tidy(d, {"</ul>"}, {"</p>"}, TRUE, 1)
        f == Tidy(e, {"<p>"}, {"<br>"}, FALSE, 1)
        g == Tidy(f, {"<br>"}, {"</p>"}, FALSE, 2)
        h == Tidy(g, {"</ul>"}, {"<br>"}, FALSE, 1)
        i == Tidy(h, {"<br>"}, {"<ul>"}, FALSE, 2)
        j == Tidy(i, {"<br>"}, HOpen, FALSE, 2)
        k == Tidy(j, HClose, {"<br>"}, FALSE, 1)
    IN  Tidy(k, {"<br>"}, {"<br>"}, TRUE, 1)

formatResponse(text) == CleanUp(Paragraphs(Markup(EscapeChars(text))))

----------------------------------------------------------------------------
(* parseSchemeBody: the sections of one scheme.  "W", "L", "E", "N" stand  *)
(* for the four emoji of the section regex, "X" for the cross mark.        *)

SectionEmoji == {"W", "L", "E", "N"}

\* sectionMeta[emoji] || { icon: 'fa-info-circle', cls: 'info' }
SectionMeta(emoji) ==
    CASE emoji = "W" -> [icon |-> "fa-lightbulb", cls |-> "why"]
      [] emoji = "L" -> [icon |-> "fa-clipboard-list", cls |-> "benefits"]
      [] emoji = "E" -> [icon |-> "fa-circle-check", cls |-> "eligibility"]
      [] emoji = "N" -> [icon |-> "fa-pen-to-square", cls |-> "apply"]
      [] emoji = "X" -> [icon |-> "fa-circle-xmark", cls |-> "eligibility"]
      [] OTHER       -> [icon |-> "fa-info-circle", cls |-> "info"]

\* the match of (W|L|E|N)\s*\*\*([^*]+)\*\* that starts at i: the position
\* of its last character, 0 if there is none
HeaderEnd(body, i) ==
    LET q == SkipWs(body, i + 1)
        c == IndexFrom(body, "*", q + 2)
    IN  IF /\ body[i] \in SectionEmoji
           /\ q + 1 <= Len(body)
           /\ body[q] = "*"
           /\ body[q + 1] = "*"
           /\ c >= q + 3
           /\ c + 1 <= Len(body)
           /\ body[c + 1] = "*"
        THEN c + 1
        ELSE 0

\* the loop over sectionRegex.exec(body): index counts from 0
SectionMatches(body) ==
    LET at == MatchStarts([i \in 1..Len(body) |-> HeaderEnd(body, i)])
    IN  [k \in 1..Len(at) |->
            [index |-> at[k] - 1,
             emoji |-> body[at[k]],
             title |-> Trim(SubSeq(body, SkipWs(body, at[k] + 1) + 2,
                                   HeaderEnd(body, at[k]) - 2)),
             headerLen |-> HeaderEnd(body, at[k]) - at[k] + 1]]

\* String.prototype.substring(from, to), offsets counted from 0
Substring(s, from, to) == SubSeq(s, from + 1, to)

\* SectionContent, every section running to the end of the body
SectionContent_ToEnd(body, matches, i) ==
    Trim(Substring(body, matches[i].index + matches[i].headerLen, Len(body)))

\* sectionContent of the i-th match
SectionContent(body, matches, i) ==
    LET contentStart == matches[i].index + matches[i].headerLen
        contentEnd == IF i + 1 <= Len(matches) THEN matches[i + 1].index
                      ELSE Len(body)
    IN  Trim(Substring(body, contentStart, contentEnd))

\* the text before the first section, trimmed
LeadText(body, matches) == Trim(Substring(body, 0, matches[1].index))

SimpleBlock(text) ==
    <<"<div class=\"scheme-body-simple\">">> \o formatResponse(text)
    \o <<"</div>">>

SectionBlock(m, content) ==
    <<"<div class=\"scheme-section scheme-section--"
          \o SectionMeta(m.emoji).cls \o "\">",
      "<div class=\"scheme-section-header\">",
      "<span class=\"scheme-section-icon\"><i class=\"fas "
          \o SectionMeta(m.emoji).icon \o "\"></i></span>",
      "<span class=\"scheme-section-title\">">>
    \o m.title
    \o <<"</span>", "</div>", "<div class=\"scheme-section-content\">">>
    \o formatResponse(content)
    \o <<"</div>", "</div>">>

\* the parts parseSchemeBody emits, in order: an untitled block (simple)
\* or a section, each with the text it holds before formatting
PartsFor(body, matches) ==
    IF matches = <<>> THEN <<[kind |-> "simple", text |-> body]>>
    ELSE (IF matches[1].index > 0 /\ LeadText(body, matches) # <<>>
          THEN <<[kind |-> "simple", text |-> LeadText(body, matches)]>>
          ELSE <<>>)
         \o [i \in 1..Len(matches) |->
                [kind |-> "section",
                 emoji |-> matches[i].emoji,
                 title |-> matches[i].title,
                 text |-> SectionContent(body, matches, i)]]

BodyParts(body) == PartsFor(body, SectionMatches(body))

\* the html of the parts, one after the other
Blocks(parts) ==
    Flatten([i \in 1..Len(parts) |->
                IF parts[i].kind = "simple"
                THEN SimpleBlock(parts[i].text)
                ELSE SectionBlock(parts[i], parts[i].text)])

parseSchemeBody(body) == Blocks(BodyParts(body))

----------------------------------------------------------------------------
(* buildSchemeAccordion: one collapsible item per scheme chunk *)

\* the last position p of lo..hi that holds a character other than a line
\* break, 0 if none: where a backtracking \s* lets a following . start
LastNonBreak(t, lo, hi) ==
    LET ok == {p \in lo..hi : p <= Len(t) /\ t[p] # "\n"}
    IN  IF ok = {} THEN 0 ELSE CHOOSE p \in ok : \A r \in ok : r <= p

LineStarts(t) == {i \in 1..Len(t) : AtLineStart(t, i)}

HashesAt(t, i) == i + 1 <= Len(t) /\ t[i] = "#" /\ t[i + 1] = "#"

\* where group 1 of /^##\s*(?:B\s*)?(.+?)$/m starts when the match starts
\* at i, 0 if there is no match at i
NameStart(t, i) ==
    LET q == SkipWs(t, i + 2)
    IN  IF ~HashesAt(t, i) THEN 0
        ELSE IF q <= Len(t) /\ t[q] = "B"
        THEN LET p == LastNonBreak(t, q + 1, SkipWs(t, q + 1))
             IN  IF p # 0 THEN p ELSE q
        ELSE LastNonBreak(t, i + 2, q)

\* where the .+ of /^##\s*.+$/m starts when the match starts at i
HeadingTextStart(t, i) ==
    IF ~HashesAt(t, i) THEN 0
    ELSE LastNonBreak(t, i + 2, SkipWs(t, i + 2))

\* nameMatch[1]; <<>> stands for no match
NameOf(t) ==
    LET i == FirstOf({j \in LineStarts(t) : NameStart(t, j) # 0})
    IN  IF i = 0 THEN <<>>
        ELSE SubSeq(t, NameStart(t, i),
                    IndexFrom(t, "\n", NameStart(t, i)) - 1)

\* trimmed.replace(/^##\s*.+$/m, '')
DropHeading(t) ==
    LET i == FirstOf({j \in LineStarts(t) : HeadingTextStart(t, j) # 0})
    IN  IF i = 0 THEN t
        ELSE SubSeq(t, 1, i - 1)
             \o SubSeq(t, IndexFrom(t, "\n", HeadingTextStart(t, i)), Len(t))

\* /^---+/gm
LeadRuleStop(s, i) ==
    IF AtLineStart(s, i) /\ SkipChar(s, "-", i) - i >= 3
    THEN SkipChar(s, "-", i) - 1
    ELSE 0

\* /---+$/gm
TrailRuleStop(s, i) ==
    IF /\ LineEnd(s, i) >= i + 2
       /\ \A k \in i..LineEnd(s, i) : s[k] = "-"
    THEN LineEnd(s, i)
    ELSE 0

\* s.replace(/^---+/gm, '')
StripLeadRules(s) ==
    Replace(s, [i \in 1..Len(s) |-> LeadRuleStop(s, i)], Nothing(s))

\* s.replace(/---+$/gm, '')
StripTrailRules(s) ==
    Replace(s, [i \in 1..Len(s) |-> TrailRuleStop(s, i)], Nothing(s))

\* schemeBody before the score is taken out of it, app.js:475-478
BodyOf(t) == Trim(StripTrailRules(StripLeadRules(Trim(DropHeading(t)))))

\* 'match score:' as the three tokens a text of the model writes it with
MarkerChars == <<"match", " ", "score:">>

\* 'Match Score:' in any letter case at position m
MarkerAt(s, m) ==
    /\ m + Len(MarkerChars) - 1 <= Len(s)
    /\ ToLower(SubSeq(s, m, m + Len(MarkerChars) - 1)) = MarkerChars

\* the % that ends \s*(\d+)% after the marker at m, 0 if there is none
PercentOf(s, m) ==
    LET d == SkipWs(s, m + Len(MarkerChars))
        e == SkipDigits(s, d)
    IN  IF MarkerAt(s, m) /\ e > d /\ e <= Len(s) /\ s[e] = "%" THEN e
        ELSE 0

\* the marker of the match of /\*?\*?Match Score:\s*(\d+)%\*?\*?/i that
\* starts at i, 0 if there is none
ScoreMarker(s, i) ==
    IF i + 1 <= Len(s) /\ s[i] = "*" /\ s[i + 1] = "*"
       /\ PercentOf(s, i + 2) # 0 THEN i + 2
    ELSE IF s[i] = "*" /\ PercentOf(s, i + 1) # 0 THEN i + 1
    ELSE IF PercentOf(s, i) # 0 THEN i
    ELSE 0

\* the last position of \*?\*? after the % at e: at most two * are taken
StarsEnd(s, e) ==
    LET stars == SkipChar(s, "*", e + 1) - (e + 1)
    IN  e + (IF stars > 2 THEN 2 ELSE stars)

\* the last position of that match: the % and at most two * after it
ScoreEnd(s, i) == StarsEnd(s, PercentOf(s, ScoreMarker(s, i)))

DigitValue(c) ==
    CASE c = "0" -> 0 [] c = "1" -> 1 [] c = "2" -> 2 [] c = "3" -> 3
      [] c = "4" -> 4 [] c = "5" -> 5 [] c = "6" -> 6 [] c = "7" -> 7
      [] c = "8" -> 8 [] c = "9" -> 9

RECURSIVE ParseInt(_)
\* parseInt of a string of digits
ParseInt(ds) ==
    IF ds = <<>> THEN 0
    ELSE 10 * ParseInt(SubSeq(ds, 1, Len(ds) - 1)) + DigitValue(ds[Len(ds)])

\* parseInt(scoreMatch[1]) for the marker at m
ScoreAt(body, m) ==
    ParseInt(SubSeq(body, SkipWs(body, m + Len(MarkerChars)),
                    PercentOf(body, m) - 1))

\* score for the match that starts at i, null (<<>>) if i is 0
ScoreFrom(body, i) ==
    IF i = 0 THEN <<>> ELSE <<ScoreAt(body, ScoreMarker(body, i))>>

\* score: <<>> for null, <<n>> for the number n
ScoreOf(body) ==
    ScoreFrom(body, FirstOf({j \in 1..Len(body) : ScoreMarker(body, j) # 0}))

\* schemeBody.replace(/\*?\*?Match Score:\s*\d+%\*?\*?/gi, '')
DropScores(s) ==
    Replace(s,
            [i \in 1..Len(s) |->
                IF ScoreMarker(s, i) # 0 THEN ScoreEnd(s, i) ELSE 0],
            Nothing(s))

\* BadgeClass, with the bands cut above 80 and above 50
BadgeClass_Exclusive(score) ==
    IF score > 80 THEN "high" ELSE IF score > 50 THEN "medium" ELSE "low"

\* score >= 80 ? 'high' : score >= 50 ? 'medium' : 'low'
BadgeClass(score) ==
    IF score >= 80 THEN "high" ELSE IF score >= 50 THEN "medium" ELSE "low"

\* escapeHtml(text): textContent read back as innerHTML
escapeHtml(text) == EscapeChars(text)

\* the item of a chunk with the heading text name and the body schemeBody
ItemOf(index, name, schemeBody) ==
    [kind |-> "item",
     id |-> index,
     name |-> Trim(ReplaceSeq(name, <<"*", "*">>, <<>>)),
     score |-> ScoreOf(schemeBody),
     body |-> Trim(DropScores(schemeBody))]

\* What sections.forEach does with one chunk, Item_NameUnchecked going on to
\* use nameMatch when it is null
Item_NameUnchecked(section, index) ==
    LET t == Trim(section)
    IN  IF NameOf(t) = <<>> THEN [kind |-> "throws"]
        ELSE ItemOf(index, NameOf(t), BodyOf(t))

\* what sections.forEach does with one chunk when schemeIndex is index:
\* formatted text, or an item with its id, name, score and body
Item(section, index) ==
    LET t == Trim(section)
    IN  IF NameOf(t) = <<>> THEN [kind |-> "text", text |-> t]
        ELSE ItemOf(index, NameOf(t), BodyOf(t))

RECURSIVE SchemeParts(_, _)
\* the chunks after the one that gave part: schemeIndex++ if it was an item
PartsAfter(part, rest, index) ==
    <<part>>
    \o SchemeParts(rest, IF part.kind = "item" THEN index + 1 ELSE index)

\* the loop over the chunks, schemeIndex starting at index
SchemeParts(sections, index) ==
    IF sections = <<>> THEN <<>>
    ELSE PartsAfter(Item(Head(sections), index), Tail(sections), index)

\* the opening tag of the badge of class cls, with its icon
BadgeOpen(cls) ==
    "<span class=\"scheme-match-badge " \o cls
    \o "\"><i class=\"fas fa-chart-line\"></i> "

Badge(score) ==
    IF score = <<>> THEN <<>>
    ELSE <<BadgeOpen(BadgeClass(score[1])), ToString(score[1]), "%",
           "</span>">>

\* the opening tag of the item with id scheme-<id>
ItemOpen(id) ==
    "<div class=\"scheme-accordion-item\" id=\"scheme-" \o ToString(id)
    \o "\">"

ItemBlock(part) ==
    <<ItemOpen(part.id),
      "<button class=\"scheme-accordion-header\" "
          \o "onclick=\"toggleSchemeAccordion('scheme-"
          \o ToString(part.id) \o "')\">",
      "<div class=\"scheme-accordion-title\">",
      "<span class=\"scheme-accordion-icon\">"
          \o "<i class=\"fas fa-chevron-right\"></i></span>",
      "<span class=\"scheme-accordion-name\">">>
    \o escapeHtml(part.name)
    \o <<"</span>", "</div>">>
    \o Badge(part.score)
    \o <<"</button>", "<div class=\"scheme-accordion-body\">">>
    \o parseSchemeBody(part.body)
    \o <<"</div>", "</div>">>

\* the parts of the accordion built for content
AccordionParts(content) == SchemeParts(SchemeChunks(content), 0)

\* html after the loop: the wrapper around what the parts gave
Accordion(parts) ==
    <<"<div class=\"scheme-accordion\">">>
    \o Flatten([i \in 1..Len(parts) |->
                   IF parts[i].kind = "text"
                   THEN formatResponse(parts[i].text)
                   ELSE ItemBlock(parts[i])])
    \o <<"</div>">>

\* what buildSchemeAccordion(content) returns
AccordionHtml(content) ==
    IF FallsBack(content) THEN formatResponse(content)
    ELSE Accordion(AccordionParts(content))

----------------------------------------------------------------------------
(* The DOM of the chat transcript and of the results container *)

\* addChatMessage(content, type): the element appended to #chatMessages
ChatElement(content, type) ==
    IF type = "bot"
    THEN [kind |-> "bot"] @@ buildSchemeAccordion(content)
    ELSE [kind |-> "user", html |-> content, accordion |-> FALSE,
          open |-> <<>>]

addChatMessage(tr, content, type) == Append(tr, ChatElement(content, type))

\* showTypingIndicator(): appends the element with id 'typingIndicator'
showTypingIndicator(tr) ==
    Append(tr, [kind |-> "typing", html |-> <<>>, accordion |-> FALSE,
                open |-> <<>>])

\* removeTypingIndicator, taking every placeholder out of the transcript
removeTypingIndicator_All(tr) == SelectSeq(tr, LAMBDA e : e.kind # "typing")

\* removeTypingIndicator(): getElementById returns the first such element
removeTypingIndicator(tr) ==
    IF \E i \in 1..Len(tr) : tr[i].kind = "typing"
    THEN LET i == CHOOSE i \in 1..Len(tr) :
                     /\ tr[i].kind = "typing"
                     /\ \A j \in 1..(i - 1) : tr[j].kind # "typing"
         IN  SubSeq(tr, 1, i - 1) \o SubSeq(tr, i + 1, Len(tr))
    ELSE tr

TypingCount(tr) == Cardinality({i \in 1..Len(tr) : tr[i].kind = "typing"})

\* The page's elements that can carry an id scheme-k, in document order:
\* position 0 is #selectorResultsContent, position i >= 1 is the i-th child
\* of #chatMessages.
DocOrder(tr) == 0..Len(tr)

OpenFlagsAt(res, tr, pos) == IF pos = 0 THEN res.open ELSE tr[pos].open

\* document.getElementById('scheme-' + k): the first element in document
\* order whose id is scheme-k (k counted from 0), or -1 for null
getElementById(res, tr, k) ==
    LET holders == {pos \in DocOrder(tr) :
                       k + 1 <= Len(OpenFlagsAt(res, tr, pos))}
    IN  IF holders = {} THEN -1
        ELSE CHOOSE pos \in holders : \A q \in holders : pos <= q

\* item.classList.toggle('open', !isOpen) on the element found for the id
toggleSchemeAccordion(res, tr, k) ==
    LET pos == getElementById(res, tr, k)
    IN  IF pos = 0
        THEN [res |-> [res EXCEPT !.open[k + 1] = ~res.open[k + 1]],
              tr |-> tr]
        ELSE [res |-> res,
              tr |-> [tr EXCEPT ![pos].open[k + 1] = ~tr[pos].open[k + 1]]]

----------------------------------------------------------------------------
(* Inputs *)

\* the required non-radio inputs of the wizard, per step
RequiredFields(step) ==
    CASE step = 1 -> {"state", "age"}
      [] OTHER    -> {}

FieldNames == RequiredFields(1) \cup RequiredFields(2)

\* what a user may put into a field; "" is the empty value
FieldValues(f) ==
    CASE f = "state" -> {"", "Maharashtra"}
      [] OTHER       -> {"", "30"}

\* the steps whose Next / Back button calls nextStep / prevStep
NextButtons == 1..(totalSteps - 1)
PrevButtons == 2..totalSteps

Tabs == {"selector", "chat"}

\* what a user may type into #chatInput
ChatInputs == {<<" ">>, <<" ", "hi">>}

\* the questions of the quick-question buttons
QuickQuestions == {<<"pension?">>}

\* texts the provider may generate
PlainReply == <<"o", "k">>
SchemeReply == <<"#", "#", " ", "B", "P", "\n", "#", "#", "B", "Q">>
Replies == {PlainReply, SchemeReply}

\* non-OK statuses of the provider, and the error bodies it may send:
\* message is <<>> when the body is no JSON or has no error.message,
\* and <<t>> when error.message is the text t
ErrStatuses == {401, 429}
ErrorDatas == {[message |-> <<>>],
               [message |-> << <<>> >>],
               [message |-> << <<"R", "a", "t", "e", " ", "l", "i", "m", "i", "t">> >>]}

\* success responses that do not hold a text at choices[0].message.content:
\* choices[0].message cannot be read, or it has no content
OffSchema == {"noMessage", "noContent"}

\* what the fetch of the proxy to the provider may produce
ProviderOutcomes ==
    {[kind |-> "ok", status |-> 200, content |-> c] : c \in Replies}
    \cup {[kind |-> "error", status |-> st, data |-> d] :
             st \in ErrStatuses, d \in ErrorDatas}
    \cup {[kind |-> "throws"]}
    \cup {[kind |-> k, status |-> 200] : k \in OffSchema}

\* the part of it that the page's requests are answered with: the provider
\* keeps to the schema of its chat completions
PageOutcomes ==
    {o \in ProviderOutcomes :
        /\ o.kind \notin OffSchema
        /\ o.kind = "error" => o.status = 429 /\ o.data.message # << <<>> >>}

\* req.body as the handler sees it when the request is not from the page:
\* no parsed body at all, or an object without messages
ForeignBodies == {[defined |-> FALSE], [defined |-> TRUE]}

----------------------------------------------------------------------------
(* server.js: POST /api/chat *)

KeyMissingText == <<"GROQ_API_KEY not set. Add it to your .env file.">>
InternalErrorText == <<"Internal server error">>
GroqErrorText(status) == <<"Groq API error: ", ToString(status)>>

\* a || b on texts and optional texts: the empty string and undefined are falsy
OrElse(opt, b) == IF opt = <<>> \/ opt[1] = <<>> THEN b ELSE opt[1]

\* RelayError, answering every provider error with status 500
RelayError_Status500(status, errorData) ==
    [status |-> 500,
     body |-> [error |-> OrElse(errorData.message, GroqErrorText(status))]]

\* the branch if (!response.ok) of the handler
RelayError(status, errorData) ==
    [status |-> status,
     body |-> [error |-> OrElse(errorData.message, GroqErrorText(status))]]

\* a request without a response, and one the proxy has not asked the
\* provider about
NoResponse == [status |-> 0]
NotAsked == [kind |-> "none"]

\* the object { content: undefined } as JSON: {}
NoContentBody == <<>>

\* HandleChat without its try / catch: an error thrown while the response
\* of the provider is read leaves the request without a response
HandleChat_Unguarded(key, body, outcome) ==
    IF ~key
    THEN [called |-> FALSE,
          response |-> [status |-> 500, body |-> [error |-> KeyMissingText]]]
    ELSE IF ~body.defined
    THEN [called |-> FALSE, response |-> NoResponse]
    ELSE IF outcome.kind \in {"throws", "noMessage"}
    THEN [called |-> TRUE, response |-> NoResponse]
    ELSE IF outcome.kind = "error"
    THEN [called |-> TRUE,
          response |-> RelayError(outcome.status, outcome.data)]
    ELSE IF outcome.kind = "noContent"
    THEN [called |-> TRUE,
          response |-> [status |-> 200, body |-> NoContentBody]]
    ELSE [called |-> TRUE,
          response |-> [status |-> 200,
                        body |-> [content |-> outcome.content]]]

\* HandleChat, reading req.body before it looks at the key
HandleChat_BodyFirst(key, body, outcome) ==
    IF ~body.defined
    THEN [called |-> FALSE,
          response |-> [status |-> 500,
                        body |-> [error |-> InternalErrorText]]]
    ELSE IF ~key
    THEN [called |-> FALSE,
          response |-> [status |-> 500, body |-> [error |-> KeyMissingText]]]
    ELSE IF outcome.kind = "error"
    THEN [called |-> TRUE,
          response |-> [status |-> outcome.status,
                        body |-> [error |-> OrElse(outcome.data.message,
                                                   GroqErrorText(
                                                       outcome.status))]]]
    ELSE IF outcome.kind \in {"throws", "noMessage"}
    THEN [called |-> TRUE,
          response |-> [status |-> 500,
                        body |-> [error |-> InternalErrorText]]]
    ELSE IF outcome.kind = "noContent"
    THEN [called |-> TRUE,
          response |-> [status |-> 200, body |-> NoContentBody]]
    ELSE [called |-> TRUE,
          response |-> [status |-> 200,
                        body |-> [content |-> outcome.content]]]

\* the handler: the response it sends and whether it called the provider.
\* Reading data.choices[0].message.content throws inside the try block when
\* choices[0].message cannot be read; a message without content gives
\* { content: undefined }
HandleChat(key, body, outcome) ==
    IF ~key
    THEN [called |-> FALSE,
          response |-> [status |-> 500, body |-> [error |-> KeyMissingText]]]
    ELSE IF ~body.defined
    THEN [called |-> FALSE,
          response |-> [status |-> 500,
                        body |-> [error |-> InternalErrorText]]]
    ELSE IF outcome.kind = "throws"
    THEN [called |-> TRUE,
          response |-> [status |-> 500,
                        body |-> [error |-> InternalErrorText]]]
    ELSE IF outcome.kind = "error"
    THEN [called |-> TRUE,
          response |-> RelayError(outcome.status, outcome.data)]
    ELSE IF outcome.kind = "noMessage"
    THEN [called |-> TRUE,
          response |-> [status |-> 500,
                        body |-> [error |-> InternalErrorText]]]
    ELSE IF outcome.kind = "noContent"
    THEN [called |-> TRUE,
          response |-> [status |-> 200, body |-> NoContentBody]]
    ELSE [called |-> TRUE,
          response |-> [status |-> 200,
                        body |-> [content |-> outcome.content]]]

----------------------------------------------------------------------------
(* app.js: callBackendAPI *)

RequestFailedText(status) ==
    <<"Request failed with status ", ToString(status)>>
FailedToFetchText == <<"Failed to fetch">>

\* response.ok
IsOk(status) == status >= 200 /\ status <= 299

\* what callBackendAPI settles with for a response of the proxy; data.content
\* is undefined when the body has no content
ClientResult(response) ==
    IF ~IsOk(response.status)
    THEN [ok |-> FALSE,
          message |-> OrElse(IF "error" \in DOMAIN response.body
                             THEN <<response.body.error>> ELSE <<>>,
                             RequestFailedText(response.status))]
    ELSE IF "content" \in DOMAIN response.body
    THEN [ok |-> TRUE, defined |-> TRUE, value |-> response.body.content]
    ELSE [ok |-> TRUE, defined |-> FALSE, value |-> <<>>]

\* the request body JSON.stringify({ messages, max_tokens })
RequestBody(messages, maxTokens) ==
    [defined |-> TRUE, messages |-> messages, max_tokens |-> maxTokens]

\* fetch(API_URL, ...): one more request on the wire; upstream records what
\* the provider answered once the proxy has asked it
Fetch(n, id, origin, body) ==
    n \cup {[id |-> id, origin |-> origin, body |-> body,
             response |-> NoResponse, upstream |-> NotAsked]}

----------------------------------------------------------------------------
(* app.js: prompts and messages *)

FormSystemPrompt == <<"You are an expert on Indian Government Schemes.">>
ChatSystemPrompt == <<"You are RightScheme AI">>

\* gatherFormData(): the values the prompt is built from
gatherFormData(f, checked) ==
    [state |-> f["state"], age |-> f["age"],
     category |-> IF checked THEN "farmer" ELSE ""]

\* buildSchemePrompt(data): the profile lines of the template
buildSchemePrompt(data) ==
    <<"- State: ", data.state, "- Age: ", data.age,
      "- Category: ", data.category>>

FormMessages(f, checked) ==
    <<[role |-> "system", content |-> FormSystemPrompt],
      [role |-> "user",
       content |-> buildSchemePrompt(gatherFormData(f, checked))]>>

\* ChatMessages, sending the history without the system prompt
ChatMessages_NoSystem(history) == history

\* [{ role: 'system', content: systemPrompt }, ...chatHistory]
ChatMessages(history) ==
    <<[role |-> "system", content |-> ChatSystemPrompt]>> \o history

CategoryAlert == <<"Please select a category that describes you">>
FormErrorAlert(message) ==
    <<"Error fetching schemes. Please try again.\n\n">> \o message

\* String.prototype.includes for a word
IncludesWord(s, w) ==
    \E i \in 1..(Len(s) - Len(w) + 1) : SubSeq(s, i, i + Len(w) - 1) = w

QuotaMsg == <<"! **API quota exceeded.**">>
RateMsg == <<"! **Rate limit reached.**">>
FallbackText == <<"Something went wrong. Please try again later.">>

GenericPrefix == <<"! **Error:** ">>

\* ErrorMsg, looking for the two words in the text as it is spelled
ErrorMsg_CaseSensitive(message) ==
    IF message # <<>> /\ IncludesWord(message, <<"q", "u", "o", "t", "a">>)
    THEN QuotaMsg
    ELSE IF message # <<>> /\ IncludesWord(message, <<"r", "a", "t", "e">>)
    THEN RateMsg
    ELSE GenericPrefix \o OrElse(<<message>>, FallbackText)

\* the message of the catch block of sendMessage, app.js:303-310
ErrorMsg(message) ==
    IF message # <<>>
       /\ IncludesWord(ToLower(message), <<"q", "u", "o", "t", "a">>)
    THEN QuotaMsg
    ELSE IF message # <<>>
            /\ IncludesWord(ToLower(message), <<"r", "a", "t", "e">>)
    THEN RateMsg
    ELSE GenericPrefix \o OrElse(<<message>>, FallbackText)

\* the effects of sendMessage up to its await, in program order
SendOps ==
    <<"addChatMessage(user)", "chatHistory.push(user)",
      "showTypingIndicator", "callBackendAPI">>

\* the effects of sendMessage after a resolved await, in program order
ReplyOps ==
    <<"removeTypingIndicator", "chatHistory.push(assistant)",
      "addChatMessage(bot)">>

\* the effects of the catch block of sendMessage, in program order
CatchOps == <<"removeTypingIndicator", "addChatMessage(error)">>

----------------------------------------------------------------------------
(* Landing page script: the interactive lock *)

LandingPage == "index.html"
SelectorPage == "selector.html"

\* the text of #statusText before the script has set it
InitialStatus == "(text of the markup)"

\* messages[lockClickCount - 1] of handleLockClick; the texts the script
\* sets are written without their emoji
LockMessages == <<"Almost there... click again!", "One more click to unlock!">>
UnlockedStatus == "Unlocked - You can now enter!"
ClickLockFirst == "Click the lock to unlock first!"

----------------------------------------------------------------------------
(* State machine *)

\* nothing has been handed to a pure function
NotRendered == [fn |-> "none"]

\* the page after DOMContentLoaded
PageInit ==
    /\ currentStep = 1
    /\ activeStep = 1
    /\ fields = [f \in FieldNames |-> ""]
    /\ categoryChecked = FALSE
    /\ formVisible = TRUE
    /\ resultsVisible = FALSE
    /\ resultsContent = NoHtml
    /\ loading = FALSE
    /\ activeTab = "selector"
    /\ chatInput = <<>>
    /\ chatHistory = <<>>
    /\ transcript = <<>>
    /\ net = {}
    /\ apiKey \in BOOLEAN
    /\ issued = 0
    /\ actions = 0
    /\ foreign = 0
    /\ upstreamCalls = 0
    /\ lastOps = <<>>

\* the landing page after its script has loaded
LandingInit ==
    /\ isUnlocked = FALSE
    /\ lockClickCount = 0
    /\ statusText = InitialStatus
    /\ lockBox = {}
    /\ sparkles = FALSE
    /\ ctaVisible = FALSE
    /\ transition = FALSE
    /\ timers = <<>>
    /\ location = LandingPage
    /\ lockClicks = 0
    /\ enterClicks = 0

Init ==
    /\ PageInit
    /\ LandingInit
    /\ rawText = <<>>
    /\ rendered = NotRendered

\* the wizard of the selector tab can be operated
FormShown == activeTab = "selector" /\ formVisible

\* the user edits a required input of the step that is shown
SetField(f, v) ==
    /\ FormShown
    /\ f \in RequiredFields(activeStep)
    /\ fields' = [fields EXCEPT ![f] = v]
    /\ UNCHANGED <<currentStep, activeStep, categoryChecked, formVisible,
                   resultsVisible, resultsContent, loading,
                   activeTab, chatVars, net, apiKey, renderVars, landingVars, countVars, lastOps>>

\* the user picks one of the category radio buttons of step 2
SelectCategory ==
    /\ FormShown
    /\ activeStep = 2
    /\ categoryChecked' = TRUE
    /\ UNCHANGED <<currentStep, activeStep, fields, formVisible,
                   resultsVisible, resultsContent, loading,
                   activeTab, chatVars, net, apiKey, renderVars, landingVars, countVars, lastOps>>

\* showStep(step): the step that carries class 'active'
showStep(step) == step

\* Validate, accepting a step as soon as one required input is filled
Validate_AnyField(current, f, checked) ==
    IF current = 2 /\ ~checked THEN "alert"
    ELSE IF RequiredFields(current) # {}
            /\ \A x \in RequiredFields(current) : f[x] = "" THEN "invalid"
    ELSE "ok"

\* the validation of nextStep: "alert", "invalid" or "ok"
Validate(current, f, checked) ==
    IF current = 2 /\ ~checked THEN "alert"
    ELSE IF \E x \in RequiredFields(current) : f[x] = "" THEN "invalid"
    ELSE "ok"

\* NextStep, adding current to the step: currentStep += current
NextStep_Adds(current) ==
    /\ FormShown
    /\ current \in NextButtons
    /\ activeStep = current
    /\ LET verdict == Validate(current, fields, categoryChecked)
       IN  /\ currentStep' = IF verdict = "ok" THEN currentStep + current
                             ELSE currentStep
           /\ activeStep' = IF verdict = "ok"
                            THEN showStep(currentStep + current)
                            ELSE activeStep
           /\ lastOps' = IF verdict = "alert"
                         THEN <<"nextStep", "alert">> \o CategoryAlert
                         ELSE <<"nextStep", verdict>>
    /\ UNCHANGED <<fields, categoryChecked, formVisible, resultsVisible,
                   resultsContent, loading, activeTab, chatVars, net,
                   apiKey, renderVars, landingVars, countVars>>

\* nextStep(current), called by the Next button of step current
NextStep(current) ==
    /\ FormShown
    /\ current \in NextButtons
    /\ activeStep = current
    /\ LET verdict == Validate(current, fields, categoryChecked)
       IN  /\ currentStep' = IF verdict = "ok" THEN current + 1
                             ELSE currentStep
           /\ activeStep' = IF verdict = "ok" THEN showStep(current + 1)
                            ELSE activeStep
           /\ lastOps' = IF verdict = "alert"
                         THEN <<"nextStep", "alert">> \o CategoryAlert
                         ELSE <<"nextStep", verdict>>
    /\ UNCHANGED <<fields, categoryChecked, formVisible, resultsVisible,
                   resultsContent, loading, activeTab, chatVars, net,
                   apiKey, renderVars, landingVars, countVars>>

\* prevStep(current), called by the Back button of step current
PrevStep(current) ==
    /\ FormShown
    /\ current \in PrevButtons
    /\ activeStep = current
    /\ currentStep' = current - 1
    /\ activeStep' = showStep(current - 1)
    /\ lastOps' = <<"prevStep">>
    /\ UNCHANGED <<fields, categoryChecked, formVisible, resultsVisible,
                   resultsContent, loading, activeTab, chatVars,
                   net, apiKey, renderVars, landingVars, countVars>>

\* handleFormSubmit up to its await
HandleFormSubmit ==
    /\ FormShown
    /\ actions < MaxActions
    /\ loading' = TRUE
    /\ net' = Fetch(net, issued + foreign + 1, "form",
                    RequestBody(FormMessages(fields, categoryChecked),
                                FormMaxTokens))
    /\ issued' = issued + 1
    /\ actions' = actions + 1
    /\ lastOps' = <<"gatherFormData", "showLoading(true)", "callBackendAPI">>
    /\ UNCHANGED <<currentStep, activeStep, fields, categoryChecked,
                   formVisible, resultsVisible, resultsContent,
                   activeTab, chatVars, apiKey, renderVars, landingVars, foreign, upstreamCalls>>

\* what callBackendAPI settles with for request r: fetch rejects while the
\* request has no response, otherwise the response decides
Settled(r) ==
    IF r.response = NoResponse
    THEN [ok |-> FALSE, message |-> FailedToFetchText]
    ELSE ClientResult(r.response)

\* FormSucceeds, results already on the page being kept
FormSucceeds_KeepsShown(r) ==
    /\ r \in net
    /\ r.origin = "form"
    /\ Settled(r).ok
    /\ Settled(r).defined
    /\ net' = net \ {r}
    /\ formVisible' = FALSE
    /\ resultsContent' = IF resultsVisible THEN resultsContent
                         ELSE buildSchemeAccordion(Settled(r).value)
    /\ resultsVisible' = TRUE
    /\ loading' = FALSE
    /\ lastOps' = <<"displayResults", "showLoading(false)">>
    /\ UNCHANGED <<currentStep, activeStep, fields, categoryChecked,
                   activeTab, chatVars, apiKey, renderVars, landingVars, countVars>>

\* handleFormSubmit after its await resolved: displayResults, then finally
FormSucceeds(r) ==
    /\ r \in net
    /\ r.origin = "form"
    /\ Settled(r).ok
    /\ Settled(r).defined
    /\ net' = net \ {r}
    /\ formVisible' = FALSE
    /\ resultsContent' = buildSchemeAccordion(Settled(r).value)
    /\ resultsVisible' = TRUE
    /\ loading' = FALSE
    /\ lastOps' = <<"displayResults", "showLoading(false)">>
    /\ UNCHANGED <<currentStep, activeStep, fields, categoryChecked,
                   activeTab, chatVars, apiKey, renderVars, landingVars, countVars>>

\* the message of the TypeError of content.split on undefined
SplitOfUndefinedText ==
    <<"Cannot read properties of undefined (reading 'split')">>

\* handleFormSubmit after its await resolved with undefined: displayResults
\* hides the form, buildSchemeAccordion throws before the results are shown,
\* then catch and finally
FormThrows(r) ==
    /\ r \in net
    /\ r.origin = "form"
    /\ Settled(r).ok
    /\ ~Settled(r).defined
    /\ net' = net \ {r}
    /\ formVisible' = FALSE
    /\ loading' = FALSE
    /\ lastOps' = <<"displayResults", "alert">>
                   \o FormErrorAlert(SplitOfUndefinedText)
                   \o <<"showLoading(false)">>
    /\ UNCHANGED <<currentStep, activeStep, fields, categoryChecked,
                   resultsVisible, resultsContent, activeTab, chatVars,
                   apiKey, renderVars, landingVars, countVars>>

\* FormFails, sending the user back to step 1 after the alert
FormFails_BackToStart(r) ==
    /\ r \in net
    /\ r.origin = "form"
    /\ ~Settled(r).ok
    /\ net' = net \ {r}
    /\ loading' = FALSE
    /\ currentStep' = 1
    /\ activeStep' = showStep(1)
    /\ lastOps' = <<"alert">> \o FormErrorAlert(Settled(r).message)
                   \o <<"showLoading(false)">>
    /\ UNCHANGED <<fields, categoryChecked, formVisible, resultsVisible,
                   resultsContent, activeTab, chatVars, apiKey, renderVars, landingVars, countVars>>

\* handleFormSubmit after its await rejected: catch, then finally
FormFails(r) ==
    /\ r \in net
    /\ r.origin = "form"
    /\ ~Settled(r).ok
    /\ net' = net \ {r}
    /\ loading' = FALSE
    /\ lastOps' = <<"alert">> \o FormErrorAlert(Settled(r).message)
                   \o <<"showLoading(false)">>
    /\ UNCHANGED <<currentStep, activeStep, fields, categoryChecked,
                   formVisible, resultsVisible, resultsContent, activeTab,
                   chatVars, apiKey, renderVars, landingVars, countVars>>

\* ResetForm, without the reset to step 1
ResetForm_KeepsStep ==
    /\ activeTab = "selector"
    /\ resultsVisible
    /\ formVisible' = TRUE
    /\ resultsVisible' = FALSE
    /\ lastOps' = <<"resetForm">>
    /\ UNCHANGED <<currentStep, activeStep, fields, categoryChecked,
                   resultsContent, loading, activeTab, chatVars, net,
                   apiKey, renderVars, landingVars, countVars>>

\* resetForm(), called by the button of the results view
ResetForm ==
    /\ activeTab = "selector"
    /\ resultsVisible
    /\ formVisible' = TRUE
    /\ resultsVisible' = FALSE
    /\ currentStep' = 1
    /\ activeStep' = showStep(1)
    /\ lastOps' = <<"resetForm">>
    /\ UNCHANGED <<fields, categoryChecked, resultsContent, loading,
                   activeTab, chatVars, net, apiKey, renderVars, landingVars, countVars>>

\* switchTab(tabName)
SwitchTab(tabName) ==
    /\ activeTab' = tabName
    /\ lastOps' = <<"switchTab">>
    /\ UNCHANGED <<formVars, chatVars, net, apiKey, renderVars, landingVars, countVars>>

\* sendMessage, building the request before the user message is pushed
sendMessage_FetchBeforePush(input) ==
    LET message == Trim(input)
    IN  IF message = <<>>
        THEN /\ chatInput' = input
             /\ lastOps' = <<>>
             /\ UNCHANGED <<chatHistory, transcript, net, issued>>
        ELSE /\ actions < MaxActions
             /\ chatInput' = <<>>
             /\ net' = Fetch(net, issued + foreign + 1, "chat",
                             RequestBody(ChatMessages(chatHistory),
                                         ChatMaxTokens))
             /\ chatHistory' = Append(chatHistory,
                                      [role |-> "user", content |-> message])
             /\ transcript' = showTypingIndicator(
                                  addChatMessage(transcript, message, "user"))
             /\ issued' = issued + 1
             /\ lastOps' = SendOps

\* sendMessage() up to its await, with input the value of #chatInput
sendMessage(input) ==
    LET message == Trim(input)
    IN  IF message = <<>>
        THEN /\ chatInput' = input
             /\ lastOps' = <<>>
             /\ UNCHANGED <<chatHistory, transcript, net, issued>>
        ELSE LET history == Append(chatHistory,
                                   [role |-> "user", content |-> message])
             IN  /\ actions < MaxActions
                 /\ chatInput' = <<>>
                 /\ chatHistory' = history
                 /\ transcript' = showTypingIndicator(
                                      addChatMessage(transcript, message,
                                                     "user"))
                 /\ net' = Fetch(net, issued + foreign + 1, "chat",
                                 RequestBody(ChatMessages(history),
                                             ChatMaxTokens))
                 /\ issued' = issued + 1
                 /\ lastOps' = SendOps

\* the user types text into #chatInput and presses the send button
SendMessage(text) ==
    /\ activeTab = "chat"
    /\ sendMessage(text)
    /\ actions' = actions + (IF Trim(text) = <<>> THEN 0 ELSE 1)
    /\ UNCHANGED <<formVars, activeTab, apiKey, renderVars, landingVars, foreign, upstreamCalls>>

\* askQuickQuestion(question): fills the input and sends
AskQuickQuestion(question) ==
    /\ activeTab = "chat"
    /\ sendMessage(question)
    /\ actions' = actions + (IF Trim(question) = <<>> THEN 0 ELSE 1)
    /\ UNCHANGED <<formVars, activeTab, apiKey, renderVars, landingVars, foreign, upstreamCalls>>

\* ChatSucceeds, recording the reply under the role name of the transcript
ChatSucceeds_RoleBot(r) ==
    /\ r \in net
    /\ r.origin = "chat"
    /\ Settled(r).ok
    /\ net' = net \ {r}
    /\ chatHistory' = Append(chatHistory,
                             [role |-> "bot", content |-> Settled(r).value])
    /\ transcript' = addChatMessage(removeTypingIndicator(transcript),
                                    Settled(r).value, "bot")
    /\ lastOps' = ReplyOps
    /\ UNCHANGED <<formVars, activeTab, chatInput, apiKey, renderVars, landingVars, countVars>>

\* sendMessage after its await resolved
ChatSucceeds(r) ==
    /\ r \in net
    /\ r.origin = "chat"
    /\ Settled(r).ok
    /\ net' = net \ {r}
    /\ chatHistory' = Append(chatHistory,
                             [role |-> "assistant",
                              content |-> Settled(r).value])
    /\ transcript' = addChatMessage(removeTypingIndicator(transcript),
                                    Settled(r).value, "bot")
    /\ lastOps' = ReplyOps
    /\ UNCHANGED <<formVars, activeTab, chatInput, apiKey, renderVars, landingVars, countVars>>

\* ChatFails, recording the error message as an assistant turn
ChatFails_PushesError(r) ==
    /\ r \in net
    /\ r.origin = "chat"
    /\ ~Settled(r).ok
    /\ net' = net \ {r}
    /\ chatHistory' = Append(chatHistory,
                             [role |-> "assistant",
                              content |-> ErrorMsg(Settled(r).message)])
    /\ transcript' = addChatMessage(removeTypingIndicator(transcript),
                                    ErrorMsg(Settled(r).message), "bot")
    /\ lastOps' = CatchOps
    /\ UNCHANGED <<formVars, activeTab, chatInput, apiKey, renderVars, landingVars, countVars>>

\* ChatFails, sending the request once more
ChatFails_Retries(r) ==
    /\ r \in net
    /\ r.origin = "chat"
    /\ ~Settled(r).ok
    /\ net' = Fetch(net \ {r}, issued + foreign + 1, "chat", r.body)
    /\ issued' = issued + 1
    /\ lastOps' = CatchOps
    /\ UNCHANGED <<formVars, activeTab, chatVars, apiKey, renderVars, landingVars, actions, foreign,
                   upstreamCalls>>

\* ChatFails, taking the unanswered user message back out of the history
ChatFails_DropsUser(r) ==
    /\ r \in net
    /\ r.origin = "chat"
    /\ ~Settled(r).ok
    /\ net' = net \ {r}
    /\ chatHistory' = SubSeq(chatHistory, 1, Len(chatHistory) - 1)
    /\ transcript' = addChatMessage(removeTypingIndicator(transcript),
                                    ErrorMsg(Settled(r).message), "bot")
    /\ lastOps' = CatchOps
    /\ UNCHANGED <<formVars, activeTab, chatInput, apiKey, renderVars, landingVars, countVars>>

\* sendMessage after its await rejected: the catch block
ChatFails(r) ==
    /\ r \in net
    /\ r.origin = "chat"
    /\ ~Settled(r).ok
    /\ net' = net \ {r}
    /\ transcript' = addChatMessage(removeTypingIndicator(transcript),
                                    ErrorMsg(Settled(r).message), "bot")
    /\ lastOps' = CatchOps
    /\ UNCHANGED <<formVars, activeTab, chatInput, chatHistory, apiKey, renderVars, landingVars,
                   countVars>>

\* the header of item k (counted from 0) of the accordion at position pos
\* is on screen
ItemShown(pos, k) ==
    IF pos = 0
    THEN /\ activeTab = "selector"
         /\ resultsVisible
         /\ k + 1 <= Len(resultsContent.open)
    ELSE /\ activeTab = "chat"
         /\ pos <= Len(transcript)
         /\ k + 1 <= Len(transcript[pos].open)

\* a click on that header: onclick="toggleSchemeAccordion('scheme-k')"
ToggleItem(pos, k) ==
    /\ ItemShown(pos, k)
    /\ LET after == toggleSchemeAccordion(resultsContent, transcript, k)
       IN  /\ resultsContent' = after.res
           /\ transcript' = after.tr
    /\ UNCHANGED <<currentStep, activeStep, fields, categoryChecked,
                   formVisible, resultsVisible, loading,
                   activeTab, chatInput, chatHistory, net, apiKey, renderVars, landingVars,
                   countVars, lastOps>>

\* the proxy handles request r; outcome is what the provider does if asked
ServerHandle(r, outcome) ==
    /\ r \in net
    /\ r.response = NoResponse
    /\ LET h == HandleChat(apiKey, r.body, outcome)
       IN  /\ net' = (net \ {r}) \cup
                     {[r EXCEPT !.response = h.response,
                                !.upstream = IF h.called THEN outcome
                                             ELSE NotAsked]}
           /\ upstreamCalls' = upstreamCalls + (IF h.called THEN 1 ELSE 0)
    /\ UNCHANGED <<formVars, activeTab, chatVars, apiKey, renderVars, landingVars, issued, actions,
                   foreign, lastOps>>

\* another HTTP client posts to /api/chat
ForeignPost(body) ==
    /\ foreign < MaxForeign
    /\ net' = Fetch(net, issued + foreign + 1, "foreign", body)
    /\ foreign' = foreign + 1
    /\ UNCHANGED <<formVars, activeTab, chatVars, apiKey, renderVars, landingVars, issued, actions,
                   upstreamCalls, lastOps>>

\* that client receives its response
ForeignReceive(r) ==
    /\ r \in net
    /\ r.origin = "foreign"
    /\ r.response # NoResponse
    /\ net' = net \ {r}
    /\ UNCHANGED <<formVars, activeTab, chatVars, apiKey, renderVars, landingVars, countVars,
                   lastOps>>

\* unlockLock(): createSparkles sets its clean-up timer before the timer
\* that shows the button is set
unlockLock ==
    /\ isUnlocked' = TRUE
    /\ lockBox' = (lockBox \ {"shake"}) \cup {"unlocked"}
    /\ sparkles' = TRUE
    /\ statusText' = UnlockedStatus
    /\ timers' = timers \o <<"clearSparkles", "showCta">>

\* handleLockClick without its first line, if (isUnlocked) return
handleLockClick_Unguarded ==
    /\ lockClickCount' = lockClickCount + 1
    /\ IF lockClickCount + 1 < 3
       THEN /\ lockBox' = lockBox \cup {"shake"}
            /\ statusText' = LockMessages[lockClickCount + 1]
            /\ UNCHANGED <<isUnlocked, sparkles, timers>>
       ELSE unlockLock

\* handleLockClick()
handleLockClick ==
    IF isUnlocked
    THEN UNCHANGED <<isUnlocked, lockClickCount, statusText, lockBox,
                     sparkles, timers>>
    ELSE /\ lockClickCount' = lockClickCount + 1
         /\ IF lockClickCount + 1 < 3
            THEN /\ lockBox' = lockBox \cup {"shake"}
                 /\ statusText' = LockMessages[lockClickCount + 1]
                 /\ UNCHANGED <<isUnlocked, sparkles, timers>>
            ELSE unlockLock

\* the user clicks the lock
LockClick ==
    /\ location = LandingPage
    /\ lockClicks < MaxLockClicks
    /\ lockClicks' = lockClicks + 1
    /\ handleLockClick
    /\ UNCHANGED <<ctaVisible, transition, location, enterClicks, appVars,
                   renderVars>>

\* enterApp()
enterApp ==
    IF ~isUnlocked
    THEN /\ lockBox' = lockBox \cup {"shake"}
         /\ statusText' = ClickLockFirst
         /\ UNCHANGED <<transition, timers>>
    ELSE /\ transition' = TRUE
         /\ timers' = Append(timers, "navigate")
         /\ UNCHANGED <<lockBox, statusText>>

\* the user clicks a button whose handler is enterApp
EnterClick ==
    /\ location = LandingPage
    /\ enterClicks < MaxEnterClicks
    /\ enterClicks' = enterClicks + 1
    /\ enterApp
    /\ UNCHANGED <<isUnlocked, lockClickCount, sparkles, ctaVisible, location,
                   lockClicks, appVars, renderVars>>

\* timers without the one at position i
Cancel(i) == SubSeq(timers, 1, i - 1) \o SubSeq(timers, i + 1, Len(timers))

\* the timer at position i is the next to run of its kind, and the 600 ms
\* of the timer that shows the button have passed if it is of another kind:
\* every other timer is set no earlier and runs longer
Due(i, fn) ==
    /\ location = LandingPage
    /\ i \in 1..Len(timers)
    /\ timers[i] = fn
    /\ \A j \in 1..(i - 1) : timers[j] # fn
    /\ fn # "showCta" => \A j \in 1..Len(timers) : timers[j] # "showCta"

\* 600 ms after unlockLock: ctaContainer.style.display = 'block'
ShowCta(i) ==
    /\ Due(i, "showCta")
    /\ ctaVisible' = TRUE
    /\ timers' = Cancel(i)
    /\ UNCHANGED <<isUnlocked, lockClickCount, statusText, lockBox, sparkles,
                   transition, location, lockClicks, enterClicks, appVars,
                   renderVars>>

\* 1200 ms after createSparkles: container.innerHTML = ''
ClearSparkles(i) ==
    /\ Due(i, "clearSparkles")
    /\ sparkles' = FALSE
    /\ timers' = Cancel(i)
    /\ UNCHANGED <<isUnlocked, lockClickCount, statusText, lockBox,
                   ctaVisible, transition, location, lockClicks, enterClicks,
                   appVars, renderVars>>

\* 800 ms after enterApp: window.location.href = 'selector.html'; the page
\* is left and its timers with it
Navigate(i) ==
    /\ Due(i, "navigate")
    /\ location' = SelectorPage
    /\ timers' = <<>>
    /\ UNCHANGED <<isUnlocked, lockClickCount, statusText, lockBox, sparkles,
                   ctaVisible, transition, lockClicks, enterClicks, appVars,
                   renderVars>>

NextLanding ==
    \/ LockClick
    \/ EnterClick
    \/ \E i \in 1..Len(timers) : ShowCta(i)
    \/ \E i \in 1..Len(timers) : ClearSparkles(i)
    \/ \E i \in 1..Len(timers) : Navigate(i)

SpecLanding == Init /\ [][NextLanding]_vars

MaxItems == 2

Next ==
    \/ \E f \in FieldNames : \E v \in FieldValues(f) : SetField(f, v)
    \/ SelectCategory
    \/ \E current \in NextButtons : NextStep(current)
    \/ \E current \in PrevButtons : PrevStep(current)
    \/ HandleFormSubmit
    \/ \E r \in net : FormSucceeds(r)
    \/ \E r \in net : FormFails(r)
    \/ ResetForm
    \/ \E tabName \in Tabs : SwitchTab(tabName)
    \/ \E text \in ChatInputs : SendMessage(text)
    \/ \E question \in QuickQuestions : AskQuickQuestion(question)
    \/ \E r \in net : ChatSucceeds(r)
    \/ \E r \in net : ChatFails(r)
    \/ \E pos \in DocOrder(transcript) : \E k \in 0..(MaxItems - 1) :
          ToggleItem(pos, k)
    \/ \E r \in net : \E outcome \in PageOutcomes :
          ServerHandle(r, outcome)

Spec == Init /\ [][Next]_vars

\* The proxy with its clients: the page submitting the form, and other HTTP
\* clients posting bodies of their own
NextProxy ==
    \/ HandleFormSubmit
    \/ \E r \in net : FormSucceeds(r)
    \/ \E r \in net : FormThrows(r)
    \/ \E r \in net : FormFails(r)
    \/ ResetForm
    \/ \E r \in net : \E outcome \in ProviderOutcomes :
          ServerHandle(r, outcome)
    \/ \E body \in ForeignBodies : ForeignPost(body)
    \/ \E r \in net : ForeignReceive(r)

SpecProxy == Init /\ [][NextProxy]_vars

----------------------------------------------------------------------------
(* The pure functions of app.js, applied to bounded families of texts *)

MaxFragments == 3

RECURSIVE Joined(_, _)
\* the texts made of at most n of the fragments F, one after the other
Joined(F, n) ==
    IF n = 0 THEN {<<>>}
    ELSE LET shorter == Joined(F, n - 1)
         IN  shorter \cup {t \o f : t \in shorter, f \in F}

\* pieces of the error texts a failed request may carry
ErrorFragments ==
    {<<"q", "u", "o", "t", "a">>, <<"Q", "U", "O", "T", "A">>,
     <<"r", "a", "t", "e">>, <<"R", "a", "t", "e">>,
     <<"g", "e", "n", "e">>, <<"q", "u", "o">>, <<"t", "a">>, <<" ">>}

ErrorTexts == Joined(ErrorFragments, MaxFragments)

\* the text is handed to a function of the page
InitRender(texts) ==
    /\ PageInit
    /\ LandingInit
    /\ rawText \in texts
    /\ rendered = NotRendered

\* the catch block of sendMessage computes errorMsg for error.message
ClassifyError ==
    /\ rendered = NotRendered
    /\ rendered' = [fn |-> "errorMsg", value |-> ErrorMsg(rawText)]
    /\ UNCHANGED <<pageVars, rawText>>

NextErrors == ClassifyError

SpecErrors == InitRender(ErrorTexts) /\ [][NextErrors]_vars

\* what a call of one of the three functions comes to: the string it
\* returns, or an exception that leaves it
Returned(html) == [threw |-> FALSE, html |-> html]
Thrown == [threw |-> TRUE, html |-> <<>>]

\* the forEach callback throws at one of the chunks
Throws(parts) == \E i \in DOMAIN parts : parts[i].kind = "throws"

\* buildSchemeAccordion(content), a TypeError of the forEach callback
\* leaving the function
BuildResult(content) ==
    IF ~FallsBack(content) /\ Throws(AccordionParts(content)) THEN Thrown
    ELSE Returned(AccordionHtml(content))

\* formatResponse(rawText) is called
Format ==
    /\ rendered = NotRendered
    /\ rendered' = [fn |-> "formatResponse",
                    result |-> Returned(formatResponse(rawText))]
    /\ UNCHANGED <<pageVars, rawText>>

\* parseSchemeBody(rawText) is called
ParseBody ==
    /\ rendered = NotRendered
    /\ rendered' = [fn |-> "parseSchemeBody",
                    result |-> Returned(parseSchemeBody(rawText))]
    /\ UNCHANGED <<pageVars, rawText>>

\* buildSchemeAccordion(rawText) is called
BuildAccordion ==
    /\ rendered = NotRendered
    /\ rendered' = [fn |-> "buildSchemeAccordion",
                    result |-> BuildResult(rawText)]
    /\ UNCHANGED <<pageVars, rawText>>

MaxPieces == 4

\* pieces of the responses the accordion is built for: a scheme heading
\* with the building emoji, a numbered one, a heading that is neither, a
\* line of text, an empty line, the emoji and ## on their own
SchemeFragments ==
    {<<"#", "#", " ", "B", " ", "n", "\n">>,
     <<"#", "#", " ", "1", ".", "m", "\n">>,
     <<"#", "#", " ", "t", "\n">>,
     <<"x", "\n">>, <<"\n">>, <<"B">>, <<"#", "#">>}

SchemeTexts == Joined(SchemeFragments, MaxPieces)

\* the heading of the one scheme of a text
SchemeHead == <<"#", "#", " ", "B", " ", "n", "\n">>

\* pieces of a scheme body with score markers: the words of the marker, a
\* whole marker in bold, one in lower case, a number with its %, text, a
\* line break, a section header
ScoreFragments ==
    {<<"Match", " ", "Score:">>,
     <<"*", "*", "MATCH", " ", "score:", " ", "7", "3", "%", "*", "*">>,
     <<"match", " ", "score:", "5", "%">>,
     <<"8", "%">>, <<"x">>, <<"\n">>,
     <<"W", "*", "*", "t", "*", "*">>}

\* one scheme whose body is made of these pieces
ScoreTexts == {SchemeHead \o body : body \in Joined(ScoreFragments, MaxPieces)}

MaxDigits == 3

\* one scheme whose body is a marker with a score of at most MaxDigits
\* digits
BadgeTexts ==
    {SchemeHead \o <<"Match", " ", "Score:", " ">> \o ds \o <<"%">> :
        ds \in Joined({<<d>> : d \in {"0", "1", "2", "3", "4", "5", "6", "7",
                                      "8", "9"}}, MaxDigits) \ {<<>>}}

\* pieces of a scheme body: three section headers, text, a line break,
\* ** and an emoji on their own
BodyFragments ==
    {<<"W", "*", "*", "t", "*", "*">>,
     <<"L", " ", "*", "*", "u", "*", "*">>,
     <<"E", "*", "*", "e", "*", "*", "y">>,
     <<"x">>, <<"\n">>, <<"*", "*">>, <<"W">>}

BodyTexts == Joined(BodyFragments, MaxPieces)

\* pieces of malformed responses: an unterminated bold marker, an
\* unterminated link, a scheme heading without a name or a body, ## on its
\* own, a section header that is not closed, white space
MalformedFragments ==
    {<<"*", "*">>, <<"[", "a", "]", "(">>, <<"#", "#", " ", "B">>,
     <<"#", "#">>, <<"W", "*", "*", "t">>, <<" ">>, <<"\n">>}

MalformedTexts == Joined(MalformedFragments, MaxPieces)

\* pieces of a scheme body with headers whose emoji is not one of the four
\* of the section regex: a known header, a header with the cross mark, one
\* with an emoji ("G") that sectionMeta does not hold either, text, a line
\* break
UnknownFragments ==
    {<<"W", "*", "*", "t", "*", "*">>,
     <<"X", "*", "*", "u", "*", "*">>,
     <<"G", " ", "*", "*", "v", "*", "*">>,
     <<"x">>, <<"\n">>}

UnknownTexts == Joined(UnknownFragments, MaxPieces)

\* the criteria lines of the prompts' format, in their order
Criteria == <<"A", "I", "C", "O", "S">>

\* one criteria line: the mark (the check mark "E" for a criterion the user
\* meets, the cross mark "X" for one they do not), the name in bold, the
\* long dash ("D") and the requirement
CriterionLine(mark, name) ==
    <<mark, " ", "*", "*", name, "*", "*", " ", "D", " ", "r", "\n">>

\* the lines under Eligibility Status for the marks given
CriteriaLines(marks) ==
    Flatten([k \in 1..Len(Criteria) |-> CriterionLine(marks[k], Criteria[k])])

\* a scheme body in the format buildSchemePrompt and the system prompt of
\* the chat ask for: Why This Scheme ("y") with its text, Key Benefits
\* ("b") with its bullets, Eligibility Status ("e") with the criteria
\* lines, How to Apply ("a") with its steps
TemplateBody(why, marks) ==
    <<"W", " ", "*", "*", "y", "*", "*", "\n">> \o why \o <<"\n", "\n">>
    \o <<"L", " ", "*", "*", "b", "*", "*", "\n",
         "o", " ", "p", "\n", "o", " ", "q", "\n", "\n">>
    \o <<"E", " ", "*", "*", "e", "*", "*", "\n">>
    \o CriteriaLines(marks) \o <<"\n">>
    \o <<"N", " ", "*", "*", "a", "*", "*", "\n",
         "o", " ", "1", ".", " ", "s", "\n", "o", " ", "2", ".", " ", "t">>

TemplateTexts ==
    {TemplateBody(why, marks) :
        why \in {<<"w">>, <<"w", " ", "x", ".">>},
        marks \in [1..Len(Criteria) -> {"E", "X"}]}

MaxChars == 1

\* the texts of one to MaxChars characters of HTML: &, <, > and a letter
HtmlStrings ==
    Joined({<<"&">>, <<"<">>, <<">">>, <<"a">>}, MaxChars) \ {<<>>}

\* a response with such a text in every place a text is put: before the
\* scheme, as the name of the scheme, before the first section, as the
\* title of a section and as its content
HtmlTexts ==
    {before \o <<"\n", "#", "#", " ", "B", " ">> \o name \o <<"\n">>
     \o lead \o <<"\n", "W", "*", "*">> \o title \o <<"*", "*">> \o content :
        before \in HtmlStrings, name \in HtmlStrings, lead \in HtmlStrings,
        title \in HtmlStrings, content \in HtmlStrings}

NextSchemes == BuildAccordion

\* any of the three functions is called
NextRender == Format \/ ParseBody \/ BuildAccordion

NextBodies == ParseBody

SpecSchemes == InitRender(SchemeTexts) /\ [][NextSchemes]_vars

SpecScores == InitRender(ScoreTexts) /\ [][NextSchemes]_vars

SpecBadges == InitRender(BadgeTexts) /\ [][NextSchemes]_vars

SpecBodies == InitRender(BodyTexts) /\ [][NextBodies]_vars

SpecUnknown == InitRender(UnknownTexts) /\ [][NextBodies]_vars

SpecTemplate == InitRender(TemplateTexts) /\ [][NextBodies]_vars

SpecMalformed == InitRender(MalformedTexts) /\ [][NextRender]_vars

SpecHtml == InitRender(HtmlTexts) /\ [][NextSchemes]_vars

----------------------------------------------------------------------------
(* Properties *)

Last(q) == q[Len(q)]

NonTyping(tr) == SelectSeq(tr, LAMBDA e : e.kind # "typing")

\* a comes before b in the effect list ops
Precedes(ops, a, b) ==
    \E i \in 1..Len(ops) : \E j \in (i + 1)..Len(ops) :
        ops[i] = a /\ ops[j] = b

UserEntry(text) == [role |-> "user", content |-> text]
AssistantEntry(text) == [role |-> "assistant", content |-> text]

\* the effects of the catch block of handleFormSubmit for an error text
FormFailureOps(message) ==
    <<"alert">> \o FormErrorAlert(message) \o <<"showLoading(false)">>

IsFormFailure(ops) ==
    /\ Len(ops) >= 3
    /\ ops[1] = "alert"
    /\ ops[2] = FormErrorAlert(<<>>)[1]

\* C1: when the request of a chat send fails, the catch block of sendMessage
\* takes one typing placeholder out of the transcript, appends exactly one
\* element to it, the error message, and leaves chatHistory as it was.
C1_FailedSendKeepsHistory ==
    [][\A r \in net : ChatFails(r) =>
          /\ chatHistory' = chatHistory
          /\ TypingCount(transcript') = TypingCount(transcript) - 1
          /\ Last(transcript') =
                 ChatElement(ErrorMsg(Settled(r).message), "bot")
          /\ NonTyping(transcript') =
                 Append(NonTyping(transcript), Last(transcript'))]_vars

\* a failed send has been handled: the error message is the last element of
\* the transcript, the history ends with the unanswered user message
C1_Witness ==
    /\ lastOps = CatchOps
    /\ chatHistory # <<>>
    /\ Last(chatHistory).role = "user"
    /\ Last(transcript).kind = "bot"
    /\ Last(transcript).html = RateMsg
    /\ TypingCount(transcript) = 0

\* C2: after the first part of a non-blank send the transcript ends with the
\* user message followed by the typing placeholder, chatHistory ends with
\* that user message, and the request on the wire carries the history that
\* already holds it, the request being the last effect; after a successful
\* reply the placeholder is removed before the assistant message is pushed
\* to chatHistory and displayed as the last element of the transcript.
C2_SendOrder ==
    /\ lastOps = SendOps =>
          /\ Len(transcript) >= 2
          /\ transcript[Len(transcript) - 1].kind = "user"
          /\ Last(transcript).kind = "typing"
          /\ chatHistory # <<>>
          /\ Last(chatHistory) =
                 UserEntry(transcript[Len(transcript) - 1].html)
          /\ \E r \in net :
                /\ r.origin = "chat"
                /\ r.body.messages = ChatMessages(chatHistory)
          /\ Precedes(lastOps, "addChatMessage(user)", "callBackendAPI")
          /\ Precedes(lastOps, "chatHistory.push(user)", "callBackendAPI")
          /\ Precedes(lastOps, "showTypingIndicator", "callBackendAPI")
    /\ lastOps = ReplyOps =>
          /\ Last(transcript).kind = "bot"
          /\ Last(chatHistory) = AssistantEntry(Last(transcript).html)
          /\ Precedes(lastOps, "removeTypingIndicator",
                      "chatHistory.push(assistant)")
          /\ Precedes(lastOps, "removeTypingIndicator", "addChatMessage(bot)")

\* a send has been answered successfully: question and answer are in the
\* history and no placeholder is left
C2_Witness ==
    /\ lastOps = ReplyOps
    /\ Len(chatHistory) = 2
    /\ chatHistory[1].role = "user"
    /\ chatHistory[2] = AssistantEntry(SchemeReply)
    /\ TypingCount(transcript) = 0

\* every required non-radio field of step c is filled and, on step 2, a
\* category is selected
StepValid(c) ==
    /\ \A f \in RequiredFields(c) : fields[f] # ""
    /\ c = 2 => categoryChecked

\* C3: nextStep(current) moves currentStep, to current + 1, only when the
\* step is valid; when it is not, currentStep and the visible step stay.
C3_NextStepValidates ==
    [][\A c \in NextButtons : NextStep(c) =>
          /\ currentStep' # currentStep =>
                StepValid(c) /\ currentStep' = c + 1 /\ activeStep' = c + 1
          /\ ~StepValid(c) =>
                currentStep' = currentStep /\ activeStep' = activeStep]_vars

\* nextStep has refused step 1 with one of its two required fields filled
C3_Witness ==
    /\ lastOps = <<"nextStep", "invalid">>
    /\ currentStep = 1
    /\ activeStep = 1
    /\ fields["state"] # ""
    /\ fields["age"] = ""

\* what C4 says of the submit itself and of a successful response
C4_SubmitAndSuccess ==
    /\ HandleFormSubmit => loading' /\ issued' = issued + 1
    /\ \A r \in net : FormSucceeds(r) =>
          ~formVisible' /\ resultsVisible' /\ ~loading'

PageRequests == {r \in net : r.origin \in {"form", "chat"}}

\* C5: the number of requests the page has issued equals the number of form
\* submissions and non-blank chat sends, and no more requests are on the
\* wire than were issued.
C5_OneRequestPerAction ==
    /\ issued = actions
    /\ Cardinality(PageRequests) <= issued

\* two user actions, the last request failed, nothing is on the wire
C5_Witness ==
    /\ actions = 2
    /\ lastOps = CatchOps
    /\ net = {}

\* the open flag of item k (from 0) of the accordion at position pos
OpenFlag(res, tr, pos, k) == OpenFlagsAt(res, tr, pos)[k + 1]

\* C6: a click on the header of an item flips the open state of exactly that
\* item and leaves every other item of the page as it was, and every item
\* is rendered collapsed.
C6_ToggleFlipsClickedItem ==
    [][/\ \A pos \in DocOrder(transcript) : \A k \in 0..(MaxItems - 1) :
             ToggleItem(pos, k) =>
                \A q \in DocOrder(transcript) :
                   \A j \in 0..(MaxItems - 1) :
                      j + 1 <= Len(OpenFlagsAt(resultsContent, transcript, q))
                      => OpenFlag(resultsContent', transcript', q, j) =
                            IF q = pos /\ j = k
                            THEN ~OpenFlag(resultsContent, transcript, q, j)
                            ELSE OpenFlag(resultsContent, transcript, q, j)
       /\ \A r \in net :
             /\ ChatSucceeds(r) =>
                   \A j \in DOMAIN Last(transcript').open :
                       ~Last(transcript').open[j]
             /\ FormSucceeds(r) =>
                   \A j \in DOMAIN resultsContent'.open :
                       ~resultsContent'.open[j]]_vars

\* what the results view shows
DisplayedResults == IF resultsVisible THEN resultsContent ELSE NoHtml

C8_HistoryAppendOnly == [][IsPrefix(chatHistory, chatHistory')]_vars

\* a successful turn followed by a failed one
C8_Witness ==
    /\ Len(chatHistory) = 3
    /\ chatHistory[2].role = "assistant"
    /\ chatHistory[3].role = "user"
    /\ lastOps = CatchOps

RelayedText(outcome) ==
    IF outcome.data.message \in {<<>>, << <<>> >>}
    THEN GroqErrorText(outcome.status)
    ELSE outcome.data.message[1]

\* C10: a request the provider answered with a non-OK status carries the
\* same status in the proxy's response, with the provider's error message as
\* error text when there is one and the generic text otherwise; the page's
\* call then fails with an error of that text.
C10_RelaysProviderError ==
    [][\A r \in net : r.upstream.kind = "error" =>
          /\ r.response.status = r.upstream.status
          /\ r.response.body = [error |-> RelayedText(r.upstream)]
          /\ r.origin = "form" =>
                /\ ~FormSucceeds(r)
                /\ FormFails(r) =>
                      lastOps' = FormFailureOps(RelayedText(r.upstream))]_vars

RateLimitText == <<"R", "a", "t", "e", " ", "l", "i", "m", "i", "t">>

\* the page has shown the provider's own message of a 429
C10_Witness == lastOps = FormFailureOps(RateLimitText)

\* the upper-case spelling of the letters of 'quota' and 'rate'
UpperOf(c) ==
    CASE c = "q" -> "Q" [] c = "u" -> "U" [] c = "o" -> "O"
      [] c = "t" -> "T" [] c = "a" -> "A" [] c = "r" -> "R"
      [] c = "e" -> "E" [] OTHER -> c

\* s contains the lower-case word w, in any letter case
ContainsAnyCase(s, w) ==
    \E i \in 1..(Len(s) - Len(w) + 1) :
        \A j \in 1..Len(w) : s[i + j - 1] \in {w[j], UpperOf(w[j])}

HasQuota(s) == ContainsAnyCase(s, <<"q", "u", "o", "t", "a">>)
HasRate(s) == ContainsAnyCase(s, <<"r", "a", "t", "e">>)

\* what C11 says of the texts with neither word
C11_GenericCase ==
    /\ QuotaMsg # RateMsg
    /\ rendered.fn = "errorMsg" /\ ~HasQuota(rawText) /\ ~HasRate(rawText) =>
          rendered.value = GenericPrefix \o
                               (IF rawText = <<>> THEN FallbackText
                                ELSE rawText)

\* C11 as stated: a text containing 'quota' gives the quota message, a text
\* containing 'rate' gives the rate-limit message, in any letter case, the
\* two messages differ, and any other text gives the generic message with
\* the text in it.
C11_AsStated ==
    /\ C11_GenericCase
    /\ rendered.fn = "errorMsg" /\ HasQuota(rawText) =>
          rendered.value = QuotaMsg
    /\ rendered.fn = "errorMsg" /\ HasRate(rawText) =>
          rendered.value = RateMsg

\* C11 (amended): as stated, except that a text containing 'rate' gives the
\* rate-limit message when it does not contain 'quota'; a text with both
\* words gives the quota message.
C11_ErrorMessageChosen ==
    /\ C11_GenericCase
    /\ rendered.fn = "errorMsg" /\ HasQuota(rawText) =>
          rendered.value = QuotaMsg
    /\ rendered.fn = "errorMsg" /\ HasRate(rawText) /\ ~HasQuota(rawText) =>
          rendered.value = RateMsg

\* an error text with both words, 'Rate' capitalised, has been classified
C11_Witness ==
    /\ rendered.fn = "errorMsg"
    /\ rawText = <<"R", "a", "t", "e", " ", "q", "u", "o", "t", "a">>
    /\ rendered.value = QuotaMsg

\* the positions of t at which a scheme heading begins: ## followed by the
\* building emoji or by a number and a dot
Boundaries(t) == {p \in 1..Len(t) : HeadingAt(t, p)}

Wrapper == "<div class=\"scheme-accordion\">"
HasWrapper(html) == html # <<>> /\ Head(html) = Wrapper

Built == rendered.fn = "buildSchemeAccordion"

\* C12 as stated: buildSchemeAccordion returns formatResponse(content),
\* without the accordion wrapper, when the text has fewer than two
\* scheme-heading boundaries and no building emoji, and an accordion
\* wrapper in every other case
C12_AsStated ==
    Built =>
        IF Cardinality(Boundaries(rawText)) < 2 /\ ~Includes(rawText, "B")
        THEN /\ rendered.result = Returned(formatResponse(rawText))
             /\ ~HasWrapper(rendered.result.html)
        ELSE /\ ~rendered.result.threw
             /\ HasWrapper(rendered.result.html)

\* nothing but white space comes before any scheme-heading boundary of t
NothingBeforeHeadings(t) ==
    \A p \in Boundaries(t) : Trim(SubSeq(t, 1, p - 1)) = <<>>

\* C12 (amended): buildSchemeAccordion returns formatResponse(content),
\* without the accordion wrapper, when no scheme-heading boundary of the
\* text has anything but white space before it and the text holds no
\* building emoji, and an accordion wrapper in every other case
C12_FallsBackUnlessCut ==
    Built =>
        IF NothingBeforeHeadings(rawText) /\ ~Includes(rawText, "B")
        THEN /\ rendered.result = Returned(formatResponse(rawText))
             /\ ~HasWrapper(rendered.result.html)
        ELSE /\ ~rendered.result.threw
             /\ HasWrapper(rendered.result.html)

\* a text whose single boundary follows an empty line came back as
\* formatResponse wrote it
C12_Witness ==
    /\ Built
    /\ Cardinality(Boundaries(rawText)) = 1
    /\ 1 \notin Boundaries(rawText)
    /\ rendered.result.html = formatResponse(rawText)

\* the positions of t at which ## and the building emoji begin
EmojiHeadings(t) ==
    {p \in 1..Len(t) :
        /\ HashesAt(t, p)
        /\ SkipWs(t, p + 2) <= Len(t)
        /\ t[SkipWs(t, p + 2)] = "B"}

\* the ids of the items of html, in the order of the items
ItemIds(html) ==
    LET opens == SelectSeq(html, LAMBDA tok :
                               \E k \in 0..Len(html) : tok = ItemOpen(k))
    IN  [i \in 1..Len(opens) |->
            CHOOSE k \in 0..Len(html) : opens[i] = ItemOpen(k)]

\* C13: for a response whose scheme headings are N >= 1 headings of the
\* form ## + building emoji, buildSchemeAccordion writes exactly N items,
\* with the ids scheme-0 .. scheme-(N-1) in this order; the text before
\* the first heading gives no item
C13_ItemPerHeading ==
    (/\ Built
     /\ EmojiHeadings(rawText) # {}
     /\ Boundaries(rawText) = EmojiHeadings(rawText))
    => /\ ~rendered.result.threw
       /\ ItemIds(rendered.result.html)
              = [k \in 1..Cardinality(EmojiHeadings(rawText)) |-> k - 1]

\* the body of the one scheme of a text that starts with SchemeHead
BodyIn(t) == SubSeq(t, Len(SchemeHead) + 1, Len(t))

\* the positions of body at which a marker 'Match Score: N%' begins
Markers(body) == {i \in 1..Len(body) : PercentOf(body, i) # 0}

\* the N of the marker at position i of body
ValueAt(body, i) ==
    ParseInt(SubSeq(body, SkipWs(body, i + Len(MarkerChars)),
                    PercentOf(body, i) - 1))

IsBadge(tok) == \E cls \in {"high", "medium", "low"} : tok = BadgeOpen(cls)

\* the positions of the badges of html
Badges(html) == {j \in 1..Len(html) : IsBadge(html[j])}

\* html as the page shows it: a break or a paragraph border is white space
Shown(html) ==
    [j \in 1..Len(html) |->
        IF html[j] \in {"<br>", "<p>", "</p>"} THEN "\n" ELSE html[j]]

\* C14: when the body of a scheme holds a marker 'Match Score: N%', the
\* badge of the item shows the N of a marker of the body and no marker is
\* left in what is rendered for the scheme; a body without a marker has no
\* badge
C14_ScoreTakenOut ==
    Built =>
        LET body == BodyIn(rawText)
            html == rendered.result.html
        IN  IF Markers(body) = {} THEN Badges(html) = {}
            ELSE /\ \E i \in Markers(body) :
                       \A j \in Badges(html) :
                           html[j + 1] = ToString(ValueAt(body, i))
                 /\ Cardinality(Badges(html)) = 1
                 /\ Markers(Shown(html)) = {}

\* the score a text of BadgeTexts carries
ScoreIn(t) == ValueAt(BodyIn(t), 1)

\* the item of html has exactly one badge, of class cls
BadgeIs(html, cls) ==
    /\ Cardinality(Badges(html)) = 1
    /\ \A j \in Badges(html) : html[j] = BadgeOpen(cls)

\* C15: the badge is 'high' for every score >= 80, 'medium' for every
\* score from 50 to 79 and 'low' for every score below 50
C15_ScoreBands ==
    Built =>
        /\ ScoreIn(rawText) >= 80 => BadgeIs(rendered.result.html, "high")
        /\ ScoreIn(rawText) \in 50..79
              => BadgeIs(rendered.result.html, "medium")
        /\ ScoreIn(rawText) < 50 => BadgeIs(rendered.result.html, "low")

\* the score 80 got the badge 'high'
C15_Witness ==
    /\ Built
    /\ ScoreIn(rawText) = 80
    /\ BadgeIs(rendered.result.html, "high")

Parsed == rendered.fn = "parseSchemeBody"

\* the positions of body at which the pattern of a section header (emoji,
\* white space, a title between two **) is found
HeaderCandidates(body) == {p \in 1..Len(body) : HeaderEnd(body, p) # 0}

\* the recognized headers of body: headers that do not overlap, every other
\* occurrence of the pattern lying inside a recognized header before it
Recognized(body) ==
    CHOOSE H \in SUBSET HeaderCandidates(body) :
        /\ \A p, q \in H : p < q => HeaderEnd(body, p) < q
        /\ \A q \in HeaderCandidates(body) \ H :
               \E p \in H : p < q /\ q <= HeaderEnd(body, p)

\* the title of the header at p: what stands between its two **
HeaderTitle(body, p) ==
    LET open == CHOOSE q \in (p + 1)..Len(body) :
                    /\ body[q] = "*"
                    /\ \A r \in (p + 1)..(q - 1) : IsWs(body[r])
    IN  Trim(SubSeq(body, open + 2, HeaderEnd(body, p) - 2))

\* what C16 expects of a body whose recognized headers start at the
\* positions at, in this order: the leading block if the text before the
\* first header is not blank, then one section per header, whose content
\* is the text from the end of the header to the start of the next one or
\* to the end of the body
ExpectedSections(body, at) ==
    LET lead == Trim(SubSeq(body, 1, at[1] - 1))
        span(i) == SubSeq(body, HeaderEnd(body, at[i]) + 1,
                          IF i < Len(at) THEN at[i + 1] - 1 ELSE Len(body))
    IN  (IF lead # <<>> THEN SimpleBlock(lead) ELSE <<>>)
        \o Flatten([i \in 1..Len(at) |->
                       SectionBlock([emoji |-> body[at[i]],
                                     title |-> HeaderTitle(body, at[i])],
                                    Trim(span(i)))])

\* C16: for a body with k >= 1 recognized headers parseSchemeBody returns
\* the k sections in the order of the headers, each with the text between
\* its header and the next one (the end of the body for the last), after
\* the leading block written once for non-blank text before the first
\* header
C16_SectionsTileBody ==
    (Parsed /\ Recognized(rawText) # {})
    => LET H == Recognized(rawText)
           at == [k \in 1..Cardinality(H) |-> Kth(H, k)]
       IN  rendered.result = Returned(ExpectedSections(rawText, at))

\* three sections came out of a body with three headers and text before
\* the first
C16_Witness ==
    /\ Parsed
    /\ Cardinality(Recognized(rawText)) = 3
    /\ Head(rendered.result.html) = "<div class=\"scheme-body-simple\">"
    /\ Cardinality({j \in 1..Len(rendered.result.html) :
                       rendered.result.html[j]
                           = "<div class=\"scheme-section-content\">"}) = 3

\* C17: on any text, however malformed, formatResponse, parseSchemeBody
\* and buildSchemeAccordion return a string and do not throw; a body
\* without a section header comes out as one block of formatted text, a
\* response without a scheme heading and without the building emoji as
\* the formatted text
C17_ParsingTotal ==
    rendered # NotRendered =>
        /\ ~rendered.result.threw
        /\ \A j \in 1..Len(rendered.result.html) :
               rendered.result.html[j] \in STRING
        /\ (Parsed /\ HeaderCandidates(rawText) = {})
              => rendered.result.html
                     = <<"<div class=\"scheme-body-simple\">">>
                       \o formatResponse(rawText) \o <<"</div>">>
        /\ (Built /\ Boundaries(rawText) = {} /\ ~Includes(rawText, "B"))
              => rendered.result.html = formatResponse(rawText)

\* an accordion was returned for a text with a chunk that has no heading
\* line and with an unterminated bold marker
C17_Witness ==
    /\ Built
    /\ ~rendered.result.threw
    /\ HasWrapper(rendered.result.html)
    /\ Includes(rawText, "*")
    /\ \E i \in DOMAIN SchemeChunks(rawText) :
           NameOf(Trim(SchemeChunks(rawText)[i])) = <<>>

\* the number of positions of s that hold a token of C
Count(s, C) == Cardinality({j \in 1..Len(s) : s[j] \in C})

\* C18: every &, < and > of the response is in the HTML in escaped form,
\* escaped once, wherever the text is put (formatted text, scheme name,
\* section title, section content), so that no < or > of the response is
\* left to open or close a tag: the HTML holds no < and no > as a
\* character, and one & for each of these characters of the response,
\* each & starting one of the entities &amp; &lt; &gt;
C18_HtmlNeutralized ==
    Built =>
        /\ Count(rendered.result.html, {"<", ">"}) = 0
        /\ Count(rendered.result.html, {"&"})
               = Count(rawText, {"&", "<", ">"})
        /\ \A j \in 1..Len(rendered.result.html) :
               rendered.result.html[j] = "&"
               => \E entity \in {Amp, Lt, Gt} :
                      SeqAt(rendered.result.html, entity, j)

\* the await of the form submission with request r resolves successfully,
\* with the text of a response, in this step
Resolves(r) ==
    /\ r \in net
    /\ r.origin = "form"
    /\ Settled(r).ok
    /\ Settled(r).defined
    /\ net' = net \ {r}

\* C19: when form submissions overlap, each successful response shows its
\* own results when it resolves, whatever is shown already and whichever
\* submission was made first, and nothing else changes the results: after
\* both have resolved the results are those of the one that resolved last
C19_LastResolvedWins ==
    [][/\ \A r \in net :
              Resolves(r) => /\ resultsVisible'
                             /\ resultsContent'.html = Settled(r).value
       /\ resultsContent'.html # resultsContent.html
              => \E r \in net : Resolves(r)]_vars

\* the results of the second submission are shown while the first
\* submission (the first request of all) has a successful response with
\* other content that is still to resolve
C19_Witness ==
    /\ resultsVisible
    /\ issued = 2
    /\ \E r \in net :
           /\ r.origin = "form"
           /\ r.id = 1
           /\ r.response # NoResponse
           /\ Settled(r).ok
           /\ Settled(r).defined
           /\ Settled(r).value # resultsContent.html

ChatInFlight == {r \in net : r.origin = "chat"}

NewChatRequests ==
    {r \in net' : r.origin = "chat" /\ r.id \notin {q.id : q \in net}}

SystemEntry == [role |-> "system", content |-> ChatSystemPrompt]

\* the messages ms are the system prompt followed by the entries of history,
\* the last of them the user message with the text sent
CarriesHistory(ms, history, sent) ==
    /\ ms = <<SystemEntry>> \o history
    /\ \A i \in 2..Len(ms) : ms[i].role # "system"
    /\ ms[Len(ms)] = [role |-> "user", content |-> sent]

\* C28: every chat request carries the system prompt as its first and only
\* system message, followed by all entries of chatHistory as they are when
\* the request is issued, in order and ending with the user message just
\* sent; chatHistory never holds a system entry
C28_RequestCarriesHistory ==
    /\ [](\A i \in 1..Len(chatHistory) : chatHistory[i].role # "system")
    /\ [][\A r \in NewChatRequests :
             CarriesHistory(r.body.messages, chatHistory',
                            transcript'[Len(transcript') - 1].html)]_vars

\* the second send has been issued after the first was answered: its
\* request carries the system prompt and the three entries of the history
C28_Witness ==
    /\ lastOps = SendOps
    /\ Len(chatHistory) = 3
    /\ chatHistory[2].role = "assistant"
    /\ \E r \in ChatInFlight :
          /\ Len(r.body.messages) = 4
          /\ CarriesHistory(r.body.messages, chatHistory,
                            chatHistory[3].content)

\* the number of entries with the role among the first n of the history
RoleCount(role, n) ==
    Cardinality({i \in 1..n : chatHistory[i].role = role})

\* C26, as stated: chatHistory alternates user, assistant, user, ...
C26_AsStated ==
    \A i \in 1..Len(chatHistory) :
        chatHistory[i].role = IF i % 2 = 1 THEN "user" ELSE "assistant"

\* C26: chatHistory holds only user and assistant entries and starts with a
\* user entry, and each assistant entry follows the user message it answers:
\* every prefix holds at least as many user entries as assistant entries
C26_RepliesFollowUsers ==
    /\ \A i \in 1..Len(chatHistory) :
          chatHistory[i].role \in {"user", "assistant"}
    /\ chatHistory # <<>> => chatHistory[1].role = "user"
    /\ \A n \in 1..Len(chatHistory) :
          RoleCount("assistant", n) <= RoleCount("user", n)

\* two sends overlapped and the first reply has been recorded behind both
\* user messages
C26_Witness ==
    /\ lastOps = ReplyOps
    /\ Len(chatHistory) = 3
    /\ chatHistory[1].role = "user"
    /\ chatHistory[2].role = "user"
    /\ chatHistory[3].role = "assistant"

\* the requests the proxy has answered after the provider sent a success
\* response of the kind
AnsweredOffSchema(kind) ==
    {r \in net : r.upstream # NotAsked /\ r.upstream.kind = kind}

\* C22, as stated: such a request gets no response from the handler
C22_AsStated ==
    \A kind \in OffSchema : \A r \in AnsweredOffSchema(kind) :
        r.response = NoResponse

\* C22: when the success response of the provider holds no text at
\* choices[0].message.content, the handler still answers the request: with
\* status 500 and 'Internal server error' from its catch block when
\* choices[0].message cannot be read, with status 200 and a body without
\* content when only the content is missing
C22_OffSchemaAnswered ==
    /\ \A r \in AnsweredOffSchema("noMessage") :
          r.response = [status |-> 500, body |-> [error |-> InternalErrorText]]
    /\ \A r \in AnsweredOffSchema("noContent") :
          /\ r.response.status = 200
          /\ DOMAIN r.response.body = {}

\* the proxy has answered one request of each kind
C22_Witness ==
    /\ \E r \in AnsweredOffSchema("noMessage") : r.response.status = 500
    /\ \E r \in AnsweredOffSchema("noContent") : r.response.status = 200

\* the form submissions whose request has not resolved yet
FormInFlight == {r \in net : r.origin = "form"}

\* C25: the loading overlay is active in every state in which a form
\* submission is in flight and inactive when none is, also when two
\* submissions overlap
C25_OverlayWhileInFlight == loading <=> FormInFlight # {}

\* resetForm was the last thing the page did
AfterReset == lastOps = <<"resetForm">>

\* C27: after resetForm the results view stays hidden and the form stays
\* visible until the user makes a new submission, also when a request
\* issued before the reset resolves afterwards: a step from a state after
\* resetForm that issues no request leaves the form visible and the results
\* hidden
C27_ResetHolds ==
    [][AfterReset /\ issued' = issued
           => formVisible' /\ ~resultsVisible']_vars

\* the scores shown by the badges of html, as written
ShownScores(html) == {html[j + 1] : j \in Badges(html)}

\* C23: the match score of every parsed scheme is absent or an integer from
\* 0 to 100: no response makes buildSchemeAccordion show a score outside
\* 0..100
C23_ScoreInRange ==
    Built => ShownScores(rendered.result.html)
                 \subseteq {ToString(n) : n \in 0..100}

\* emoji outside the set of the section regex
UnknownEmoji == {"X", "G"}

\* the positions of body at which such an emoji is followed by white space
\* and a title between two **
UnknownHeaders(body) ==
    {p \in 1..Len(body) :
        LET q == SkipWs(body, p + 1)
            c == IndexFrom(body, "*", q + 2)
        IN  /\ body[p] \in UnknownEmoji
            /\ q + 1 <= Len(body)
            /\ body[q] = "*"
            /\ body[q + 1] = "*"
            /\ c >= q + 3
            /\ c + 1 <= Len(body)
            /\ body[c + 1] = "*"}

\* the sections of html with the generic class
InfoSections(html) ==
    {j \in 1..Len(html) :
        html[j] = "<div class=\"scheme-section scheme-section--info\">"}

\* C24: a header made of an emoji outside the known set and a bold title is
\* a section header: parseSchemeBody emits a section of the generic class
\* 'info' for each of them
C24_UnknownHeaderGetsInfo ==
    Parsed =>
        Cardinality(InfoSections(rendered.result.html))
            = Cardinality(UnknownHeaders(rawText))

\* the opening tag of a section of class cls
SectionOpen(cls) == "<div class=\"scheme-section scheme-section--" \o cls \o "\">"

\* the positions of the sections of html, of whatever class
SectionsIn(html) ==
    {j \in 1..Len(html) :
        \E cls \in {"why", "benefits", "eligibility", "apply", "info"} :
            html[j] = SectionOpen(cls)}

\* the classes of the sections of html, in the order of the sections
SectionClasses(html) ==
    LET at == SectionsIn(html)
    IN  [k \in 1..Cardinality(at) |-> html[Kth(at, k)]]

\* C29: a scheme body in the format of the prompts is split into exactly
\* the four sections Why This Scheme, Key Benefits, Eligibility Status and
\* How to Apply, the criteria lines lying in the content of Eligibility
\* Status
C29_FourSections ==
    Parsed =>
        SectionClasses(rendered.result.html)
            = <<SectionOpen("why"), SectionOpen("benefits"),
                SectionOpen("eligibility"), SectionOpen("apply")>>

\* the step starts the navigation to the selector page: the transition is
\* switched on or a timer that sets window.location is set
StartsNavigation ==
    \/ transition' /\ ~transition
    \/ Len(SelectSeq(timers', LAMBDA fn : fn = "navigate"))
           > Len(SelectSeq(timers, LAMBDA fn : fn = "navigate"))

\* C30: on the landing page enterApp starts the navigation to the selector
\* page only when the lock is unlocked; the lock is unlocked exactly from
\* the third click on it; and once it is unlocked isUnlocked stays true and
\* lockClickCount stays 3 under any further clicks
C30_LockGuardsEntry ==
    /\ [](isUnlocked <=> lockClicks >= 3)
    /\ [](isUnlocked => lockClickCount = 3)
    /\ [](location = SelectorPage => isUnlocked)
    /\ [][StartsNavigation => isUnlocked]_vars
    /\ [][isUnlocked => isUnlocked' /\ lockClickCount' = 3]_vars

\* the lock was clicked five times, an enter button before and after the
\* unlocking, and the page has been left for the selector page
C30_Witness ==
    /\ lockClicks = 5
    /\ enterClicks >= 2
    /\ statusText = UnlockedStatus
    /\ "shake" \notin lockBox
    /\ isUnlocked
    /\ lockClickCount = 3
    /\ location = SelectorPage

====
